---- MODULE Spec2Model ----
(***************************************************************************)
(* Verification model of the enterprise_rag backend.                       *)
(*                                                                         *)
(* Spec           ingestion from an empty system: the upload handler, the  *)
(*                Celery worker task, the admin retry, re-index and delete *)
(*                endpoints, interleaved                                   *)
(* UploadSpec     upload requests served side by side                      *)
(* WorkerSpec     ingestion jobs on one document row, with explicit retry  *)
(* CleanupSpec    upload requests and worker attempts and their temp dirs  *)
(* RetrievalSpec  one retrieval over a collection shared by the groups     *)
(* QuerySpec      queries through the agent graph and the query endpoint,  *)
(*                and the events they emit                                 *)
(* AgentSpec      runs of the agent graph, one after the other             *)
(* StreamSpec     the producer thread and the consumer of one chat stream  *)
(* CloudChatSpec  one buffered call of the cloud chat endpoint and its      *)
(*                retries                                                  *)
(* ConfigSpec     update_provider and the lazy creation of the local       *)
(*                client, on threads of their own                          *)
(* FanoutSpec     the websocket subscribers and the broadcast tasks of the *)
(*                live log                                                 *)
(* ChatSpec       the turns of one conversation: the history selected and  *)
(*                the messages persisted                                   *)
(* BootstrapSpec  starts of the backend against one Qdrant server, with    *)
(*                uploads of points and a re-index in between              *)
(* ChunkSpec      chunk_document_pages applied to one page                 *)
(* SessionSpec    chat requests of several users and the session keys they *)
(*                send                                                     *)
(* EmitSpec       emit calls on the threads of the API server              *)
(* FilterSpec     the test-type filter of a query against the payload of a *)
(*                chunk                                                    *)
(* ClassifySpec   one call of classify_intent                              *)
(*                                                                         *)
(* Calls across modules are followed to the function the call names; the   *)
(* snapshot mixes revisions of some modules, and a call whose arguments    *)
(* differ from the signature in the snapshot is followed all the same.     *)
(* The external services (PostgreSQL, MinIO, the Celery broker, Qdrant,    *)
(* the LLM) are modelled by their contract, a failure being one of the     *)
(* outcomes of a call; database commits of existing rows are reliable.     *)
(***************************************************************************)
EXTENDS Integers, Sequences, FiniteSets, TLC

(* ------------------------------ bounds --------------------------------- *)

\* number of upload requests served in one behaviour of Spec and CleanupSpec
MaxUploads == 1

\* number of jobs the broker accepts in one behaviour of Spec and UploadSpec
MaxJobs == 2

\* number of upload requests served in one behaviour of UploadSpec
ConcurrentUploads == 2

\* number of jobs the broker accepts in one behaviour of WorkerSpec
WorkerJobs == 2

\* number of jobs the broker accepts in one behaviour of CleanupSpec
CleanupJobs == 1

\* largest number of chunks one run of the pipeline produces
MaxChunks == 1

(* ------------------------- program constants --------------------------- *)

\* @celery_app.task(max_retries=2)
MaxRetries == 2

\* str(exc)[:500]
MaxErrLen == 500

\* len("Celery worker not available")
CeleryMsgLen == 27

\* len(f"No file source for document {doc_id}") for a one-digit id
NoSourceLen == 29

(* ------------------------------ ingestion ------------------------------ *)

VARIABLES
    docs,        \* documents table: doc id -> row
    nextId,      \* next autoincrement id of the documents table
    objects,     \* object keys present in the MinIO bucket
    localFiles,  \* doc ids whose file_path names an existing local file
    uploads,     \* upload requests: request -> position and locals
    jobs,        \* process_document_task jobs: job -> position and locals
    tempDirs,    \* temp directories on disk, named by the execution that made them
    deleting,    \* doc ids whose delete_document call is past its store deletes
    retrying,    \* doc ids whose retry_document call is past its pending commit
    points       \* the Qdrant collection: per pipeline run its document, the payload
                 \* file_path of its points and their number

ingestVars == <<docs, nextId, objects, localFiles, uploads, jobs, tempDirs, deleting,
               retrying, points>>

Max(a, b) == IF a > b THEN a ELSE b

Min(a, b) == IF a < b THEN a ELSE b

Hashes == {"h1"}
Groups == {1, 2}

UploadIds == 1 .. Max(MaxUploads, ConcurrentUploads)
DocIds == 1 .. (Max(MaxUploads, ConcurrentUploads) + 1)
JobIds == 1 .. Max(Max(MaxJobs, WorkerJobs), CleanupJobs)

NoKey == <<0, "">>
ObjectKey(g, h) == <<g, h>>

\* lengths of the exception messages the pipeline produces
ErrLens == {1, MaxErrLen + 1}

NoErr == [kind |-> "none", len |-> 0]

NoDoc == [exists |-> FALSE, file_hash |-> "", group_id |-> 0, object_key |-> NoKey,
          file_path |-> FALSE, processing_status |-> "", processing_error |-> NoErr,
          chunk_count |-> 0]

\* str(exc)[:500]: the message cut to its first MaxErrLen characters
Truncate(e) == [e EXCEPT !.len = IF e.len > MaxErrLen THEN MaxErrLen ELSE e.len]

IdleUpload == [pc |-> "idle", hash |-> "", group |-> 0, doc |-> 0, result |-> "",
               ran |-> FALSE]

FreeJob == [pc |-> "free", doc |-> 0, retries |-> 0, attempts |-> 0, exc |-> NoErr,
            chunks |-> 0, result |-> ""]

UploadDir(r) == <<"upload", r>>
TaskDir(j) == <<"task", j>>

\* file_path="" of the row the upload handler inserts
NoPath == <<"", 0>>

\* os.path.join(UPLOAD_DIR, safe_filename): the local copy of document d
LocalPath(d) == <<"uploads", d>>

\* doc.file_path as a path
FilePath(d) == IF docs[d].file_path THEN LocalPath(d) ELSE NoPath

\* process_pdf, pipeline.py lines 127-189: every chunk of a run becomes a point
\* with a fresh uuid4 id that carries the path the run was given in
\* metadata.file_path, and the points are upserted; a run of no chunks adds
\* none.  A record stands for the points of one run
ProcessPdf(pts, d, file_path, out) ==
    IF out.ok /\ out.chunks > 0
    THEN pts \cup {[doc |-> d, file_path |-> file_path, chunks |-> out.chunks]}
    ELSE pts

\* retrieval.delete_by_file_path, lines 183-201
DeleteByFilePath(pts, file_path) == {p \in pts : p.file_path # file_path}

\* the finally blocks without their rmtree
RmtreeSkipped(dirs, d) == dirs

\* shutil.rmtree(temp_dir, ignore_errors=True) in the finally blocks
Rmtree(dirs, d) == dirs \ {d}

\* the job slots of J the broker has not used yet
FreeJobs(J) == {j \in J : jobs[j].pc = "free"}

LeastFree(J) == CHOOSE x \in FreeJobs(J) : \A y \in FreeJobs(J) : x <= y

\* process_document_task.delay(doc_id): the broker takes the job
Delay(js, j, d) == [js EXCEPT ![j] = [FreeJob EXCEPT !.pc = "queued", !.doc = d]]

IngestInit ==
    /\ docs = [d \in DocIds |-> NoDoc]
    /\ nextId = 1
    /\ objects = {}
    /\ localFiles = {}
    /\ uploads = [r \in UploadIds |-> IdleUpload]
    /\ jobs = [j \in JobIds |-> FreeJob]
    /\ tempDirs = {}
    /\ deleting = {}
    /\ retrying = {}
    /\ points = {}

(* ---------------- upload_document (routers/documents.py) ---------------- *)

\* badtype: refused by validate_upload or the membership check, before mkdtemp
UploadKinds == {"ok", "badtype", "toolarge"}

\* the duplicate query: a row with this hash in this group
ExistingDoc(h, g) ==
    \E d \in DocIds : docs[d].exists /\ docs[d].file_hash = h /\ docs[d].group_id = g

\* outcomes of one run of the extraction / chunking / indexing pipeline
PipelineOutcomes ==
    [ok : {TRUE}, chunks : 0 .. MaxChunks, err : {NoErr}]
        \cup [ok : {FALSE}, chunks : {0}, err : [kind : {"pipeline"}, len : ErrLens]]

PendingDoc(h, g) ==
    [exists |-> TRUE, file_hash |-> h, group_id |-> g, object_key |-> ObjectKey(g, h),
     file_path |-> FALSE, processing_status |-> "pending", processing_error |-> NoErr,
     chunk_count |-> 0]

\* validation, temp copy, size check, hash and the duplicate query (lines 88-133)
UploadCheck(r, h, g, kind) ==
    /\ uploads[r].pc = "idle"
    /\ IF kind = "badtype"
       THEN /\ uploads' = [uploads EXCEPT ![r].pc = "rejected", ![r].result = "400"]
            /\ UNCHANGED tempDirs
       ELSE LET made == tempDirs \cup {UploadDir(r)} IN
            IF kind = "toolarge"
            THEN /\ uploads' = [uploads EXCEPT ![r].pc = "rejected", ![r].result = "400"]
                 /\ tempDirs' = Rmtree(made, UploadDir(r))
            ELSE IF ExistingDoc(h, g)
            THEN /\ uploads' = [uploads EXCEPT ![r].pc = "rejected", ![r].result = "409"]
                 /\ tempDirs' = Rmtree(made, UploadDir(r))
            ELSE /\ uploads' = [uploads EXCEPT ![r].pc = "checked", ![r].hash = h,
                                               ![r].group = g]
                 /\ tempDirs' = made
    /\ UNCHANGED <<docs, nextId, objects, localFiles, jobs, deleting, retrying, points>>

\* the MinIO put and the insert of the pending row (lines 135-160)
UploadStore(r, stored) ==
    /\ uploads[r].pc = "checked"
    /\ IF stored
       THEN /\ objects' = objects \cup {ObjectKey(uploads[r].group, uploads[r].hash)}
            /\ docs' = [docs EXCEPT ![nextId] = PendingDoc(uploads[r].hash, uploads[r].group)]
            /\ nextId' = nextId + 1
            /\ uploads' = [uploads EXCEPT ![r].pc = "created", ![r].doc = nextId]
            /\ UNCHANGED tempDirs
       ELSE /\ uploads' = [uploads EXCEPT ![r] = [IdleUpload EXCEPT !.pc = "error",
                                                                    !.result = "500"]]
            /\ tempDirs' = Rmtree(tempDirs, UploadDir(r))
            /\ UNCHANGED <<docs, nextId, objects>>
    /\ UNCHANGED <<localFiles, jobs, deleting, retrying, points>>

\* the synchronous fallback of the dispatch (lines 169-186)
SyncFallback(d, out) ==
    IF out.ok
    THEN [docs EXCEPT ![d].file_path = TRUE, ![d].processing_status = "done",
                      ![d].chunk_count = out.chunks]
    ELSE [docs EXCEPT ![d].processing_status = "failed",
                      ![d].processing_error = Truncate(out.err)]

\* the dispatch, the response and the finally block (lines 162-195)
UploadDispatch(J, r, dispatched, out) ==
    LET d == uploads[r].doc IN
    /\ uploads[r].pc = "created"
    /\ tempDirs' = Rmtree(tempDirs, UploadDir(r))
    /\ IF ~docs[d].exists
       THEN \* the row was deleted after the insert: every commit of it raises
            /\ uploads' = [uploads EXCEPT ![r].pc = "error", ![r].result = "500",
                                          ![r].ran = TRUE]
            /\ IF dispatched
               THEN /\ FreeJobs(J) # {}
                    /\ jobs' = Delay(jobs, LeastFree(J), d)
               ELSE UNCHANGED jobs
            /\ UNCHANGED <<docs, localFiles, points>>
       ELSE IF dispatched
       THEN /\ FreeJobs(J) # {}
            /\ jobs' = Delay(jobs, LeastFree(J), d)
            /\ uploads' = [uploads EXCEPT ![r].pc = "returned",
                                          ![r].result = docs[d].processing_status]
            /\ UNCHANGED <<docs, localFiles, points>>
       ELSE /\ docs' = SyncFallback(d, out)
            /\ localFiles' = IF out.ok THEN localFiles \cup {d} ELSE localFiles
            /\ points' = ProcessPdf(points, d, LocalPath(d), out)
            /\ uploads' = [uploads EXCEPT ![r].pc = "returned", ![r].ran = TRUE,
                                          ![r].result = docs'[d].processing_status]
            /\ UNCHANGED jobs
    /\ UNCHANGED <<nextId, objects, deleting, retrying>>

(* ------------- process_document_task (tasks/document_tasks.py) ---------- *)

\* the retry test with <= in place of <
RetriesRemainInclusive(retries) == retries <= MaxRetries

\* self.request.retries < self.max_retries: another attempt is scheduled
RetriesRemain(retries) == retries < MaxRetries

\* lines 31-41: load the row; a missing row returns at once, else status -> processing
TaskStart(j) ==
    LET d == jobs[j].doc IN
    /\ jobs[j].pc = "queued"
    /\ IF ~docs[d].exists
       THEN /\ jobs' = [jobs EXCEPT ![j].pc = "done", ![j].result = "error",
                                    ![j].attempts = @ + 1]
            /\ UNCHANGED docs
       ELSE /\ jobs' = [jobs EXCEPT ![j].pc = "started", ![j].attempts = @ + 1,
                                    ![j].exc = NoErr]
            /\ docs' = [docs EXCEPT ![d].processing_status = "processing"]
    /\ UNCHANGED <<nextId, objects, localFiles, uploads, tempDirs, deleting, retrying, points>>

\* lines 45-55: what fetching the file raises, NoErr when it is fetched
FetchError(d, net) ==
    IF ~docs[d].exists THEN [kind |-> "stale", len |-> 1]
    ELSE IF docs[d].object_key # NoKey
    THEN IF docs[d].object_key \notin objects THEN [kind |-> "objmissing", len |-> 1]
         ELSE IF ~net THEN [kind |-> "transient", len |-> 1]
         ELSE NoErr
    ELSE IF docs[d].file_path /\ d \in localFiles THEN NoErr
    ELSE [kind |-> "nosource", len |-> NoSourceLen]

\* lines 46-55: mkdtemp, then download / copy / FileNotFoundError
TaskFetch(j, net) ==
    LET e == FetchError(jobs[j].doc, net) IN
    /\ jobs[j].pc = "started"
    /\ tempDirs' = tempDirs \cup {TaskDir(j)}
    /\ jobs' = [jobs EXCEPT ![j].pc = IF e = NoErr THEN "fetched" ELSE "failing",
                            ![j].exc = e]
    /\ UNCHANGED <<docs, nextId, objects, localFiles, uploads, deleting, retrying, points>>

\* the done commit without line 67
MarkDoneKeepError(d, n) ==
    [docs EXCEPT ![d].processing_status = "done", ![d].chunk_count = n]

\* lines 64-69: the row after a successful run of the pipeline
MarkDone(d, n) ==
    [docs EXCEPT ![d].processing_status = "done", ![d].chunk_count = n,
                 ![d].processing_error = NoErr]

\* lines 57-72 and 93-96: the pipeline over the temp copy, the done commit,
\* the finally block
TaskProcess(j, out) ==
    LET d == jobs[j].doc IN
    /\ jobs[j].pc = "fetched"
    /\ points' = ProcessPdf(points, d, TaskDir(j), out)
    /\ IF out.ok /\ docs[d].exists
       THEN /\ docs' = MarkDone(d, out.chunks)
            /\ jobs' = [jobs EXCEPT ![j].pc = "done", ![j].result = "done",
                                    ![j].chunks = out.chunks]
            /\ tempDirs' = Rmtree(tempDirs, TaskDir(j))
       ELSE /\ jobs' = [jobs EXCEPT ![j].pc = "failing",
                                    ![j].exc = IF out.ok
                                               THEN [kind |-> "stale", len |-> 1]
                                               ELSE out.err]
            /\ UNCHANGED <<docs, tempDirs>>
    /\ UNCHANGED <<nextId, objects, localFiles, uploads, deleting, retrying>>

\* lines 74-96: the except branch, the retry decision, the finally block
TaskFail(j) ==
    LET d == jobs[j].doc IN
    /\ jobs[j].pc = "failing"
    /\ docs' = IF docs[d].exists
               THEN [docs EXCEPT ![d].processing_status = "failed",
                                 ![d].processing_error = Truncate(jobs[j].exc)]
               ELSE docs
    /\ jobs' = IF RetriesRemain(jobs[j].retries)
               THEN [jobs EXCEPT ![j].pc = "queued", ![j].retries = @ + 1,
                                 ![j].exc = NoErr]
               ELSE [jobs EXCEPT ![j].pc = "done", ![j].result = "failed",
                                 ![j].exc = NoErr]
    /\ tempDirs' = Rmtree(tempDirs, TaskDir(j))
    /\ UNCHANGED <<nextId, objects, localFiles, uploads, deleting, retrying, points>>

(* ----------------------- routers/admin.py -------------------------------- *)

\* retry_document, lines 253-275: the status test and the pending commit
RetryDocument(d) ==
    /\ docs[d].exists
    /\ d \notin retrying
    /\ docs[d].processing_status \in {"failed", "done"}
    /\ docs' = [docs EXCEPT ![d].processing_status = "pending",
                            ![d].processing_error = NoErr]
    /\ retrying' = retrying \cup {d}
    /\ UNCHANGED <<nextId, objects, localFiles, uploads, jobs, tempDirs, deleting, points>>

\* retry_document, lines 276-292: the dispatch, or the failed commit and the 503
RetryDispatch(J, d, dispatched) ==
    /\ d \in retrying
    /\ retrying' = retrying \ {d}
    /\ IF dispatched
       THEN /\ FreeJobs(J) # {}
            /\ jobs' = Delay(jobs, LeastFree(J), d)
            /\ UNCHANGED docs
       ELSE /\ docs' = IF docs[d].exists
                       THEN [docs EXCEPT ![d].processing_status = "failed",
                                         ![d].processing_error =
                                             [kind |-> "celery", len |-> CeleryMsgLen]]
                       ELSE docs
            /\ UNCHANGED jobs
    /\ UNCHANGED <<nextId, objects, localFiles, uploads, tempDirs, deleting, points>>

\* delete_document, lines 212-244: the index, object and local-file deletes
DeleteStores(d) ==
    /\ docs[d].exists
    /\ d \notin deleting
    /\ deleting' = deleting \cup {d}
    /\ objects' = IF docs[d].object_key # NoKey
                  THEN objects \ {docs[d].object_key} ELSE objects
    /\ localFiles' = localFiles \ {d}
    /\ points' = DeleteByFilePath(points, FilePath(d))
    /\ UNCHANGED <<docs, nextId, uploads, jobs, tempDirs, retrying>>

\* delete_document, lines 246-248: the row delete and its commit
DeleteRow(d) ==
    /\ d \in deleting
    /\ deleting' = deleting \ {d}
    /\ docs' = [docs EXCEPT ![d] = NoDoc]
    /\ UNCHANGED <<nextId, objects, localFiles, uploads, jobs, tempDirs, retrying, points>>

Rank(x, S) == Cardinality({y \in S : y < x})

\* rows the re-index sends to the worker (lines 479-487)
ReindexQueued == {d \in DocIds : /\ docs[d].exists
                                 /\ ~(docs[d].file_path /\ d \in localFiles)
                                 /\ docs[d].object_key # NoKey}

\* rows the re-index runs through the pipeline itself (lines 474-478)
ReindexLocal == {d \in DocIds : docs[d].exists /\ docs[d].file_path /\ d \in localFiles}

\* reindex_all_documents with confirm=true, lines 436-510: the collection is
\* recreated, rows with a local file are processed in the handler, rows with
\* an object key go to the worker
ReindexAll(J, dispatched) ==
    /\ \E d \in DocIds : docs[d].exists
    /\ \E n \in 1 .. MaxChunks :
           points' \in {{[doc |-> d, file_path |-> LocalPath(d), chunks |-> n] : d \in L} :
                          L \in SUBSET ReindexLocal}
    /\ docs' = [d \in DocIds |->
                   IF d \in ReindexQueued
                   THEN [docs[d] EXCEPT !.processing_status = "pending"]
                   ELSE docs[d]]
    /\ IF dispatched
       THEN /\ Cardinality(FreeJobs(J)) >= Cardinality(ReindexQueued)
            /\ jobs' = [j \in JobIds |->
                           IF /\ j \in FreeJobs(J)
                              /\ \E d \in ReindexQueued :
                                     Rank(d, ReindexQueued) = Rank(j, FreeJobs(J))
                           THEN [FreeJob EXCEPT
                                    !.pc = "queued",
                                    !.doc = CHOOSE d \in ReindexQueued :
                                               Rank(d, ReindexQueued) = Rank(j, FreeJobs(J))]
                           ELSE jobs[j]]
       ELSE UNCHANGED jobs
    /\ UNCHANGED <<nextId, objects, localFiles, uploads, tempDirs, deleting, retrying>>


(* ----------------------- retrieval (rag/retrieval.py) -------------------- *)

VARIABLES
    hits,        \* the points the last retrieval returned
    lastQuery    \* the arguments of the last retrieval

retrVars == <<hits, lastQuery>>

\* groups 1 .. MaxGroup own indexed chunks
MaxGroup == 3

\* limit: int = 10
SearchLimit == 10

GroupIds == 1 .. MaxGroup

\* metadata the pipeline derives for the chunks of two reports
Profiles ==
    { [doc_id |-> "ETR_01", test_type |-> "brake", vehicle_model |-> "Pro 3012",
       compliance_status |-> {"pass"}],
      [doc_id |-> "ETR_02", test_type |-> "noise", vehicle_model |-> "Pro 2049",
       compliance_status |-> {"fail", "pass"}] }

\* payload.metadata of the points in the collection: both reports in every group
Indexed ==
    { [group_id |-> g, doc_id |-> p.doc_id, test_type |-> p.test_type,
       vehicle_model |-> p.vehicle_model, compliance_status |-> p.compliance_status] :
          g \in GroupIds, p \in Profiles }

NoFilters == [doc_id |-> "", test_type |-> "", vehicle_model |-> "",
              compliance_status |-> {}]

\* the dicts extract_filters_from_query can hand to hybrid_search
FilterDicts ==
    [doc_id : {"", "ETR_01"}, test_type : {"", "noise"}, vehicle_model : {"", "Pro 3012"},
     compliance_status : {{}, {"fail"}}]

FieldCondition(key, any, text) == [key |-> key, any |-> any, text |-> text]

\* rest.FieldCondition(key="metadata.group_id", match=rest.MatchAny(any=group_ids))
GroupCondition(group_ids) == FieldCondition("metadata.group_id", group_ids, "")

\* does the point satisfy the condition (Qdrant's MatchAny / MatchText / MatchValue)
Matches(p, c) ==
    CASE c.key = "metadata.group_id" -> p.group_id \in c.any
      [] c.key = "metadata.doc_id" -> p.doc_id = c.text
      [] c.key = "metadata.test_type" -> p.test_type = c.text
      [] c.key = "metadata.vehicle_model" -> p.vehicle_model = c.text
      [] c.key = "metadata.compliance_status" -> p.compliance_status \cap c.any # {}

\* the filter of search, lines 77-83
SearchFilter(group_ids) == {GroupCondition(group_ids)}

\* must_conditions without the group condition
MustConditionsUngrouped(group_ids, filters) ==
    (IF filters.doc_id # ""
     THEN {FieldCondition("metadata.doc_id", {}, filters.doc_id)} ELSE {})
    \cup (IF filters.test_type # ""
          THEN {FieldCondition("metadata.test_type", {}, filters.test_type)} ELSE {})
    \cup (IF filters.vehicle_model # ""
          THEN {FieldCondition("metadata.vehicle_model", {}, filters.vehicle_model)}
          ELSE {})
    \cup (IF filters.compliance_status # {}
          THEN {FieldCondition("metadata.compliance_status", filters.compliance_status, "")}
          ELSE {})

\* must_conditions of hybrid_search, lines 118-152
MustConditions(group_ids, filters) ==
    {GroupCondition(group_ids)}
    \cup (IF filters.doc_id # ""
          THEN {FieldCondition("metadata.doc_id", {}, filters.doc_id)} ELSE {})
    \cup (IF filters.test_type # ""
          THEN {FieldCondition("metadata.test_type", {}, filters.test_type)} ELSE {})
    \cup (IF filters.vehicle_model # ""
          THEN {FieldCondition("metadata.vehicle_model", {}, filters.vehicle_model)}
          ELSE {})
    \cup (IF filters.compliance_status # {}
          THEN {FieldCondition("metadata.compliance_status", filters.compliance_status, "")}
          ELSE {})

\* _client.query_points(query_filter=must, limit=limit).points: what Qdrant may return
QueryPoints(must, limit) ==
    {S \in SUBSET {p \in Indexed : \A c \in must : Matches(p, c)} :
        Cardinality(S) <= limit}

NoQuery == [op |-> "none", group_ids |-> {}, group_id |-> 0, filters |-> NoFilters]

RetrievalInit ==
    /\ hits = {}
    /\ lastQuery = NoQuery

\* search(query_vector, group_ids), lines 63-91
Search(group_ids) ==
    /\ hits' \in QueryPoints(SearchFilter(group_ids), SearchLimit)
    /\ lastQuery' = [NoQuery EXCEPT !.op = "search", !.group_ids = group_ids]

\* hybrid_search(dense, sparse, group_ids, filters=filters), lines 94-175
HybridSearch(group_ids, filters) ==
    /\ hits' \in QueryPoints(MustConditions(group_ids, filters), SearchLimit)
    /\ lastQuery' = [NoQuery EXCEPT !.op = "hybrid_search", !.group_ids = group_ids,
                                    !.filters = filters]

\* the groups retrieve_node searches (agentic_router.py lines 128-130)
SearchedGroups(group_ids, group_id) == IF group_id # 0 THEN {group_id} ELSE group_ids

\* retrieve_node of the agent graph, agentic_router.py lines 118-138
RetrieveNode(group_ids, group_id, filters) ==
    /\ hits' \in QueryPoints(MustConditions(SearchedGroups(group_ids, group_id), filters),
                             SearchLimit)
    /\ lastQuery' = [op |-> "retrieve_node", group_ids |-> group_ids,
                     group_id |-> group_id, filters |-> filters]

(* ------------- queries and their events (agentic_router.py, ------------- *)
(* ------------- routers/documents.py, pipeline.py) ------------------------ *)

VARIABLES
    events,      \* the events emitted so far, in emit order
    queries,     \* query requests: request -> position and locals
    traceSeq     \* number of trace ids generate_trace_id has produced

traceVars == <<events, queries, traceSeq>>

\* number of query requests served in one behaviour of QuerySpec
MaxQueries == 2

QueryIds == 1 .. MaxQueries

Intents == {"greeting", "document_query", "follow_up", "clarification", "out_of_scope"}

\* the trace id of an event emitted without one
NoTrace == 0

IdleQuery == [pc |-> "idle", path |-> "", intent |-> "", chunks |-> 0,
              response |-> "", trace_id |-> NoTrace, trail |-> <<>>,
              has_history |-> FALSE, llm_calls |-> 0, embed_calls |-> 0,
              search_calls |-> 0, sources |-> 0, retrieval_ms |-> 0,
              generation_ms |-> 0, provider_failed |-> FALSE]

\* one emitted event: log_sync(...) or observability.emit(...); q names the emitter
Event(q, type, trace) == [q |-> q, event_type |-> type, trace_id |-> trace]

TraceInit ==
    /\ events = <<>>
    /\ queries = [q \in QueryIds |-> IdleQuery]
    /\ traceSeq = 0

\* the histories the chat handlers select before they call the agent
SelectedHistories == {<<>>, <<"user", "assistant">>}

\* the history the handlers hand over without the reset of line 401
HandedHistoryKept(selected) == selected

\* routers/documents.py lines 401 and 584: history = [] before the agent is called
HandedHistory(selected) == <<>>

\* run_agentic_query, lines 325-352: the initial state and the REQUEST event
AgentRequest(q, history) ==
    /\ queries[q].pc = "idle"
    /\ queries' = [queries EXCEPT ![q].pc = "classify_intent", ![q].path = "agent",
                                  ![q].has_history = (history # <<>>)]
    /\ events' = Append(events, Event(q, "REQUEST", NoTrace))
    /\ UNCHANGED traceSeq

\* what the regex catalogue finds in a query: a greeting, a follow-up phrase,
\* at most three words, an off-topic word
QueryTexts == [greets : BOOLEAN, follows : BOOLEAN, short : BOOLEAN, offtopic : BOOLEAN]

\* classify_intent_rule_based, intent_classifier.py lines 44-80, confidence in percent
ClassifyIntentRuleBased(text, has_history) ==
    IF text.greets THEN <<"greeting", 95>>
    ELSE IF has_history /\ text.follows THEN <<"follow_up", 85>>
    ELSE IF has_history /\ text.short THEN <<"follow_up", 70>>
    ELSE IF text.offtopic THEN <<"out_of_scope", 80>>
    ELSE <<"document_query", 90>>

\* what the LLM answers to the classification prompt: it raises, it names a
\* category, or it says something else
LlmCategories == {"raises", "other"} \cup Intents

\* classify_intent_llm, lines 83-127
ClassifyIntentLlm(text, has_history, answer) ==
    IF answer = "raises" THEN ClassifyIntentRuleBased(text, has_history)
    ELSE IF answer \in Intents THEN <<answer, 90>>
    ELSE <<"document_query", 60>>

\* the LLM asked only when the rules are unsure
UsesLlmWhenUnsure(text, has_history, use_llm) ==
    ClassifyIntentRuleBased(text, has_history)[2] < 75

\* classify_intent, lines 146-150: if use_llm or confidence < 0.75
UsesLlm(text, has_history, use_llm) ==
    use_llm \/ ClassifyIntentRuleBased(text, has_history)[2] < 75

\* classify_intent(query, history, use_llm), lines 130-152
ClassifyIntent(text, has_history, use_llm, answer) ==
    IF UsesLlm(text, has_history, use_llm)
    THEN ClassifyIntentLlm(text, has_history, answer)
    ELSE ClassifyIntentRuleBased(text, has_history)

\* the routing with refusals sent on to retrieval
RouteByIntentNoRefusal(intent) ==
    IF intent = "greeting" THEN "handle_greeting" ELSE "extract_metadata"

\* route_by_intent, lines 236-246
RouteByIntent(intent) ==
    IF intent = "greeting" THEN "handle_greeting"
    ELSE IF intent = "out_of_scope" THEN "handle_out_of_scope"
    ELSE "extract_metadata"

\* classify_intent_node, lines 54-68 (classify_intent with use_llm left at
\* False), and the conditional edge
ClassifyIntentNode(q, text, answer) ==
    LET c == ClassifyIntent(text, queries[q].has_history, FALSE, answer) IN
    /\ queries[q].pc = "classify_intent"
    /\ queries' = [queries EXCEPT
                      ![q].pc = RouteByIntent(c[1]),
                      ![q].intent = c[1],
                      ![q].trail = Append(@, "classify_intent"),
                      ![q].llm_calls = IF UsesLlm(text, queries[q].has_history, FALSE)
                                       THEN @ + 1 ELSE @]
    /\ events' = Append(events, Event(q, "SYSTEM", NoTrace))
    /\ UNCHANGED traceSeq

\* handle_greeting_node, lines 71-83
HandleGreetingNode(q) ==
    /\ queries[q].pc = "handle_greeting"
    /\ queries' = [queries EXCEPT ![q].pc = "END", ![q].response = "greeting_canned",
                                  ![q].sources = 0, ![q].retrieval_ms = 0,
                                  ![q].generation_ms = 0,
                                  ![q].trail = Append(@, "handle_greeting")]
    /\ events' = Append(events, Event(q, "RESPONSE", NoTrace))
    /\ UNCHANGED traceSeq

\* handle_out_of_scope_node, lines 86-98
HandleOutOfScopeNode(q) ==
    /\ queries[q].pc = "handle_out_of_scope"
    /\ queries' = [queries EXCEPT ![q].pc = "END", ![q].response = "out_of_scope_canned",
                                  ![q].sources = 0, ![q].retrieval_ms = 0,
                                  ![q].generation_ms = 0,
                                  ![q].trail = Append(@, "handle_out_of_scope")]
    /\ events' = Append(events, Event(q, "RESPONSE", NoTrace))
    /\ UNCHANGED traceSeq

\* extract_metadata_node, lines 101-115
ExtractMetadataNode(q) ==
    /\ queries[q].pc = "extract_metadata"
    /\ queries' = [queries EXCEPT ![q].pc = "retrieve",
                                  ![q].trail = Append(@, "extract_metadata")]
    /\ events' = Append(events, Event(q, "SYSTEM", NoTrace))
    /\ UNCHANGED traceSeq

\* retrieve_node, lines 118-192: the embeddings and the search bring back n
\* chunks, or one of them raises; the elapsed time is measured (1: not zero)
AgentRetrieveNode(q, ok, n) ==
    /\ queries[q].pc = "retrieve"
    /\ IF ok
       THEN /\ queries' = [queries EXCEPT ![q].pc = "generate", ![q].chunks = n,
                                          ![q].sources = n, ![q].retrieval_ms = 1,
                                          ![q].embed_calls = @ + 1,
                                          ![q].search_calls = @ + 1,
                                          ![q].trail = Append(@, "retrieve")]
            /\ events' = Append(events, Event(q, "RETRIEVAL", NoTrace))
       ELSE /\ queries' = [queries EXCEPT ![q].pc = "raised",
                                          ![q].embed_calls = @ + 1,
                                          ![q].trail = Append(@, "retrieve")]
            /\ UNCHANGED events
    /\ UNCHANGED traceSeq

\* generate_node, line 202: the answer when no chunk was retrieved
NoChunksResponse ==
    "I couldn't find relevant information in the uploaded documents for your query."

\* generate_node, lines 195-233: no chunks gives the fixed text without an LLM
\* call; an exception of _invoke_llm leaves the node and the graph
GenerateNode(q, ok) ==
    /\ queries[q].pc = "generate"
    /\ IF queries[q].chunks = 0
       THEN /\ queries' = [queries EXCEPT ![q].pc = "END",
                                          ![q].response = NoChunksResponse,
                                          ![q].generation_ms = 1,
                                          ![q].trail = Append(@, "generate")]
            /\ events' = Append(events, Event(q, "GENERATION", NoTrace))
       ELSE IF ok
       THEN /\ queries' = [queries EXCEPT ![q].pc = "END", ![q].response = "llm",
                                          ![q].generation_ms = 1,
                                          ![q].llm_calls = @ + 1,
                                          ![q].trail = Append(@, "generate")]
            /\ events' = Append(events, Event(q, "GENERATION", NoTrace))
       ELSE /\ queries' = [queries EXCEPT ![q].pc = "raised",
                                          ![q].llm_calls = @ + 1,
                                          ![q].provider_failed = TRUE,
                                          ![q].trail = Append(@, "generate")]
            /\ UNCHANGED events
    /\ UNCHANGED traceSeq

\* run_agentic_query, lines 356-430: the RESPONSE event and the return
AgentResponse(q) ==
    /\ queries[q].pc = "END"
    /\ queries' = [queries EXCEPT ![q].pc = "returned"]
    /\ events' = Append(events, Event(q, "RESPONSE", NoTrace))
    /\ UNCHANGED traceSeq

\* query_documents, lines 239-263: log_request at ingress, then the group checks
QueryIngress(q, check) ==
    /\ queries[q].pc = "idle"
    /\ queries' = [queries EXCEPT
                      ![q].path = "query",
                      ![q].intent = "document_query",
                      ![q].pc = CASE check = "ok" -> "generate_answer"
                                  [] check = "no_groups" -> "unassigned"
                                  [] check = "forbidden" -> "raised"]
    /\ events' = Append(events, Event(q, "REQUEST", NoTrace))
    /\ UNCHANGED traceSeq

\* generate_trace_id, observability.py lines 96-98: a fresh id
GenerateTraceId(n) == n + 1

\* pipeline.generate_answer, lines 199-323
GenerateAnswer(q, outcome, n) ==
    LET trace_id == GenerateTraceId(traceSeq) IN
    /\ queries[q].pc = "generate_answer"
    /\ CASE outcome = "search_raises" ->
              /\ queries' = [queries EXCEPT ![q].pc = "raised"]
              /\ UNCHANGED <<events, traceSeq>>
         [] outcome = "llm_raises" ->
              /\ queries' = [queries EXCEPT ![q].pc = "raised", ![q].chunks = n,
                                            ![q].provider_failed = TRUE,
                                            ![q].trace_id = trace_id]
              /\ events' = Append(events, Event(q, "RETRIEVAL", trace_id))
              /\ traceSeq' = traceSeq + 1
         [] outcome = "ok" ->
              /\ queries' = [queries EXCEPT ![q].pc = "log_response", ![q].chunks = n,
                                            ![q].response = "llm",
                                            ![q].trace_id = trace_id]
              /\ events' = events \o <<Event(q, "RETRIEVAL", trace_id),
                                       Event(q, "GENERATION", trace_id),
                                       Event(q, "RESPONSE", trace_id)>>
              /\ traceSeq' = traceSeq + 1

\* query_documents, lines 272-279: the handler's own log_response, then the return
QueryResponse(q) ==
    /\ queries[q].pc = "log_response"
    /\ queries' = [queries EXCEPT ![q].pc = "returned"]
    /\ events' = Append(events, Event(q, "RESPONSE", NoTrace))
    /\ UNCHANGED traceSeq

(* ------------------ chat_stream (routers/documents.py) ------------------- *)

VARIABLES
    stream_q,          \* the queue.Queue between the agent thread and the generator
    producer,          \* the background thread: position and the deltas it has put
    result_container,  \* what background_task left for the generator
    consumer,          \* event_generator: position
    sse                \* the events event_generator has yielded, in order

streamVars == <<stream_q, producer, result_container, consumer, sse>>

\* largest number of deltas the generator streams for one request
MaxDeltas == 3

Deltas == {"a", "b"}

\* the None that ends the stream
Sentinel == "None"

\* the state chat_stream leaves when it returns the StreamingResponse (lines 586-624)
StreamInit ==
    /\ stream_q = <<>>
    /\ producer = [pc |-> "running", sent |-> <<>>]
    /\ result_container = [result |-> FALSE, error |-> FALSE]
    /\ consumer = [pc |-> "polling"]
    /\ sse = <<>>

\* a request that never reaches the streaming part
StreamIdle ==
    /\ stream_q = <<>>
    /\ producer = [pc |-> "none", sent |-> <<>>]
    /\ result_container = [result |-> FALSE, error |-> FALSE]
    /\ consumer = [pc |-> "none"]
    /\ sse = <<>>

\* the generate node in streaming mode copies a delta into the output channel
AgentPut(c) ==
    /\ producer.pc = "running"
    /\ Len(producer.sent) < MaxDeltas
    /\ stream_q' = Append(stream_q, c)
    /\ producer' = [producer EXCEPT !.sent = Append(@, c)]
    /\ UNCHANGED <<result_container, consumer, sse>>

\* the producer posts the sentinel when the generator is exhausted
StreamEnd(q) == Append(q, Sentinel)

\* the streaming run of the agent ends
AgentEnd ==
    /\ producer.pc = "running"
    /\ stream_q' = StreamEnd(stream_q)
    /\ producer' = [producer EXCEPT !.pc = "ended"]
    /\ UNCHANGED <<result_container, consumer, sse>>

\* background_task, lines 604-617: run_agentic_query returned
BackgroundReturn ==
    /\ producer.pc = "ended"
    /\ result_container' = [result_container EXCEPT !.result = TRUE]
    /\ producer' = [producer EXCEPT !.pc = "returned"]
    /\ UNCHANGED <<stream_q, consumer, sse>>

\* the except branch without its put
PostSentinelSkipped(q) == q

\* stream_q.put(None)  # ENSURE STREAM ENDS  (line 621)
PostSentinel(q) == Append(q, Sentinel)

\* background_task, lines 618-621: run_agentic_query raised
BackgroundRaise ==
    /\ producer.pc \in {"running", "ended"}
    /\ result_container' = [result_container EXCEPT !.error = TRUE]
    /\ stream_q' = PostSentinel(stream_q)
    /\ producer' = [producer EXCEPT !.pc = "raised"]
    /\ UNCHANGED <<consumer, sse>>

\* event_generator, lines 628-638: one get that finds an item (an empty get sleeps)
ConsumerGet ==
    /\ consumer.pc = "polling"
    /\ stream_q # <<>>
    /\ stream_q' = Tail(stream_q)
    /\ IF Head(stream_q) = Sentinel
       THEN /\ consumer' = [consumer EXCEPT !.pc = "joining"]
            /\ UNCHANGED sse
       ELSE /\ sse' = Append(sse, [type |-> "chunk", content |-> Head(stream_q),
                                   error |-> FALSE])
            /\ UNCHANGED consumer
    /\ UNCHANGED <<producer, result_container>>

\* event_generator, lines 640-689: thread.join(), then the end event
ConsumerEnd ==
    /\ consumer.pc = "joining"
    /\ producer.pc \in {"returned", "raised"}
    /\ sse' = Append(sse, [type |-> "end", content |-> "",
                           error |-> result_container.error])
    /\ consumer' = [consumer EXCEPT !.pc = "closed"]
    /\ UNCHANGED <<stream_q, producer, result_container>>

(* ------------- the cloud-chat call (rag/generation.py) ------------------- *)

VARIABLES
    nvidia       \* one buffered _call_nvidia_api call: position, requests sent, waits

\* max_retries: int = 3
NvidiaMaxRetries == 3

\* initial_delay: float = 1.0
InitialDelay == 1

\* requests.exceptions.ConnectionError and Timeout, and ConnectTimeout, which is both
RetriedErrors == {"connection_error", "timeout", "connect_timeout"}

\* an HTTP error status, another RequestException, a body without choices
FatalErrors == {"http_error", "request_exception", "bad_body"}

PostOutcomes == {"ok"} \cup RetriedErrors \cup FatalErrors

NvidiaIdle == [pc |-> "idle", attempt |-> 0, requests |-> <<>>, sleeps |-> <<>>,
               raised |-> ""]

NvidiaInit == nvidia = NvidiaIdle

\* lines 128-151: the api key test, then the loop is entered
CallNvidiaApi(has_key) ==
    /\ nvidia.pc = "idle"
    /\ nvidia' = IF has_key
                 THEN [nvidia EXCEPT !.pc = "posting"]
                 ELSE [nvidia EXCEPT !.pc = "raised", !.raised = "ValueError"]

\* the wait that grows by one second per attempt
BackoffLinear(attempt) == InitialDelay * (attempt + 1)

\* delay = initial_delay * (2**attempt)  (line 170)
Backoff(attempt) == InitialDelay * (2 ^ attempt)

\* one pass of the loop, lines 153-182: the post, and what its outcome leads to
NvidiaPost(outcome) ==
    /\ nvidia.pc = "posting"
    /\ nvidia' =
          IF outcome = "ok"
          THEN [nvidia EXCEPT !.pc = "returned", !.requests = Append(@, outcome)]
          ELSE IF outcome \in RetriedErrors /\ nvidia.attempt < NvidiaMaxRetries
          THEN [nvidia EXCEPT !.requests = Append(@, outcome),
                              !.sleeps = Append(@, Backoff(nvidia.attempt)),
                              !.attempt = @ + 1]
          ELSE [nvidia EXCEPT !.pc = "raised", !.requests = Append(@, outcome),
                              !.raised = outcome]

(* ------------- the generator configuration (rag/generation.py) ----------- *)

VARIABLES
    cfg,               \* _config_cache: the local model name and base URL
    ollama_llm_cache,  \* _ollama_llm_cache: the cached local client or NoClient
    updater,           \* the update_provider call of the admin interface
    creators           \* request threads inside _get_ollama_llm

configVars == <<cfg, ollama_llm_cache, updater, creators>>

\* number of update_provider calls in one behaviour of ConfigSpec
MaxUpdates == 2

\* number of request threads in one behaviour of ConfigSpec
MaxCreators == 2

Models == {"m1", "m2"}
BaseUrls == {"u1", "u2"}

CreatorIds == 1 .. MaxCreators

NoClient == [model |-> "", base_url |-> ""]

\* Ollama(model=..., base_url=...)
Ollama(model, base_url) == [model |-> model, base_url |-> base_url]

\* the changes dict: a key is absent, carries None, or carries a value
Changes == [ollama_model : Models \cup {"absent", "None"},
            ollama_base_url : BaseUrls \cup {"absent", "None"}]

IdleCreator == [pc |-> "idle", model |-> "", base_url |-> "", client |-> NoClient]

\* _get_config, lines 23-33: the environment's values
ConfigInit ==
    /\ cfg = [ollama_model |-> "m1", ollama_base_url |-> "u1"]
    /\ ollama_llm_cache = NoClient
    /\ updater = [pc |-> "idle", changes |-> [ollama_model |-> "absent",
                                               ollama_base_url |-> "absent"],
                  calls |-> 0]
    /\ creators = [t \in CreatorIds |-> IdleCreator]

\* update_provider, lines 78-90: the allowed keys that carry a value are written
UpdateConfig(changes) ==
    /\ updater.pc = "idle"
    /\ updater.calls < MaxUpdates
    /\ cfg' = [ollama_model |-> IF changes.ollama_model \in Models
                                THEN changes.ollama_model ELSE cfg.ollama_model,
               ollama_base_url |-> IF changes.ollama_base_url \in BaseUrls
                                   THEN changes.ollama_base_url
                                   ELSE cfg.ollama_base_url]
    /\ updater' = [pc |-> "configured", changes |-> changes, calls |-> updater.calls + 1]
    /\ UNCHANGED <<ollama_llm_cache, creators>>

\* update_provider, lines 92-102: the client is rebuilt when a local key was given
UpdateRebuild ==
    /\ updater.pc = "configured"
    /\ ollama_llm_cache' =
          IF updater.changes.ollama_model # "absent"
             \/ updater.changes.ollama_base_url # "absent"
          THEN Ollama(cfg.ollama_model, cfg.ollama_base_url)
          ELSE ollama_llm_cache
    /\ updater' = [updater EXCEPT !.pc = "idle"]
    /\ UNCHANGED <<cfg, creators>>

\* _get_ollama_llm, lines 37-41: the test of the cache and the read of the config
GetOllamaLlm(t) ==
    /\ creators[t].pc = "idle"
    /\ creators' = IF ollama_llm_cache # NoClient
                   THEN [creators EXCEPT ![t].pc = "done", ![t].client = ollama_llm_cache]
                   ELSE [creators EXCEPT ![t].pc = "building",
                                         ![t].model = cfg.ollama_model,
                                         ![t].base_url = cfg.ollama_base_url]
    /\ UNCHANGED <<cfg, ollama_llm_cache, updater>>

\* _get_ollama_llm, lines 40-43: the client is built, stored and returned
StoreOllamaLlm(t) ==
    /\ creators[t].pc = "building"
    /\ ollama_llm_cache' = Ollama(creators[t].model, creators[t].base_url)
    /\ creators' = [creators EXCEPT ![t].pc = "done",
                                    ![t].client = Ollama(creators[t].model,
                                                         creators[t].base_url)]
    /\ UNCHANGED <<cfg, updater>>

(* ------------- the live fan-out (rag/realtime_logger.py) ----------------- *)
(* The websocket router registers its subscribers here.  rag/observability.py *)
(* holds a copy of the same fan-out (WebSocketConnection.send, _broadcast,    *)
(* emit: lines 47-90 and 172-177) with the same steps.                        *)

VARIABLES
    active,      \* _active_connections
    conns,       \* each websocket: "new", "open", "broken" (peer gone) or "removed"
    tasks,       \* the broadcast tasks, named by the event they carry
    emitted,     \* number of events emitted so far
    received     \* what each subscriber's websocket has been sent, in order

fanoutVars == <<active, conns, tasks, emitted, received>>

\* number of websocket subscribers in one behaviour of FanoutSpec
MaxConns == 2

\* number of events emitted in one behaviour of FanoutSpec
MaxEvents == 2

ConnIds == 1 .. MaxConns

\* events are named by their position in the emit order
EventIds == 1 .. MaxEvents

NoTask == [pc |-> "none", cursor |-> 0, size |-> 0, disconnected |-> {},
           failed |-> {}, sent |-> {}]

FanoutInit ==
    /\ active = {}
    /\ conns = [c \in ConnIds |-> "new"]
    /\ tasks = [e \in EventIds |-> NoTask]
    /\ emitted = 0
    /\ received = [c \in ConnIds |-> <<>>]

\* log_sync, lines 125-163: the entry is written; on the event loop's thread a
\* broadcast task is created, on any other thread the broadcast is skipped
LogSync(on_loop) ==
    /\ emitted < MaxEvents
    /\ emitted' = emitted + 1
    /\ tasks' = [tasks EXCEPT ![emitted + 1].pc = IF on_loop THEN "scheduled"
                                                   ELSE "skipped"]

\* websocket_logs, routers/websocket.py lines 25-35: add_connection and the
\* log_sync of the connect message
AddConnection(c) ==
    /\ conns[c] = "new"
    /\ LogSync(TRUE)
    /\ active' = active \cup {c}
    /\ conns' = [conns EXCEPT ![c] = "open"]
    /\ UNCHANGED received

\* the peer of a subscriber goes away
Break(c) ==
    /\ conns[c] = "open"
    /\ conns' = [conns EXCEPT ![c] = "broken"]
    /\ UNCHANGED <<active, tasks, emitted, received>>

\* websocket_logs, lines 49-57: the handler ends, remove_connection and the
\* log_sync of the disconnect message
RemoveConnection(c) ==
    /\ conns[c] = "broken"
    /\ LogSync(TRUE)
    /\ active' = active \ {c}
    /\ conns' = [conns EXCEPT ![c] = "removed"]
    /\ UNCHANGED received

\* an event emitted by a request handler
Emit(on_loop) ==
    /\ LogSync(on_loop)
    /\ UNCHANGED <<active, conns, received>>

\* websocket.send_json raises when the peer is gone
SendJsonRaises(c) == conns[c] # "open"

\* WebSocketConnection.send, lines 71-75: try send_json, except Exception: pass
SendRaises(c) == FALSE

\* the connection the set iterator yields after the one at the cursor
NextConn(cursor) == CHOOSE c \in active : c > cursor /\ \A x \in active : x > cursor => c <= x

\* _broadcast_log, lines 105-118: the task starts, the loop starting tasks in
\* the order they were created; with no subscriber it returns, otherwise it
\* runs into the first turn of the loop, where the send suspends it
BroadcastStart(e) ==
    /\ tasks[e].pc = "scheduled"
    /\ \A x \in EventIds : x < e => tasks[x].pc # "scheduled"
    /\ IF active = {}
       THEN /\ tasks' = [tasks EXCEPT ![e].pc = "done"]
            /\ UNCHANGED received
       ELSE LET c == NextConn(0) IN
            /\ received' = IF SendJsonRaises(c) THEN received
                           ELSE [received EXCEPT ![c] = Append(@, e)]
            /\ tasks' = [tasks EXCEPT
                            ![e].pc = "running",
                            ![e].size = Cardinality(active),
                            ![e].cursor = c,
                            ![e].disconnected = IF SendRaises(c) THEN @ \cup {c} ELSE @,
                            ![e].failed = IF SendJsonRaises(c) THEN @ \cup {c} ELSE @,
                            ![e].sent = IF SendJsonRaises(c) THEN @ ELSE @ \cup {c}]
    /\ UNCHANGED <<active, conns, emitted>>

\* _broadcast_log, lines 114-122: the send returns; the next turn of the loop
\* over the set, which suspends in its send, or the loop's
\* end and the discard of the disconnected; the set iterator raises
\* RuntimeError when the set changed size since the loop began
BroadcastStep(e) ==
    /\ tasks[e].pc = "running"
    /\ IF Cardinality(active) # tasks[e].size
       THEN /\ tasks' = [tasks EXCEPT ![e].pc = "crashed"]
            /\ UNCHANGED <<active, received>>
       ELSE IF \A c \in active : c <= tasks[e].cursor
       THEN /\ active' = active \ tasks[e].disconnected
            /\ tasks' = [tasks EXCEPT ![e].pc = "done"]
            /\ UNCHANGED received
       ELSE LET c == NextConn(tasks[e].cursor) IN
            /\ received' = IF SendJsonRaises(c) THEN received
                           ELSE [received EXCEPT ![c] = Append(@, e)]
            /\ tasks' = [tasks EXCEPT
                            ![e].cursor = c,
                            ![e].disconnected = IF SendRaises(c) THEN @ \cup {c} ELSE @,
                            ![e].failed = IF SendJsonRaises(c) THEN @ \cup {c} ELSE @,
                            ![e].sent = IF SendJsonRaises(c) THEN @ ELSE @ \cup {c}]
            /\ UNCHANGED active
    /\ UNCHANGED <<conns, emitted>>

(* ------------- the history of a chat turn (routers/documents.py) --------- *)

VARIABLES
    cache,       \* the Redis list of the session: message ids, oldest first
    durable,     \* the chat_messages rows of the conversation, oldest first
    turn         \* the chat request being served: position and locals

chatVars == <<cache, durable, turn>>

\* number of chat turns in one behaviour of ChatSpec
MaxTurns == 6

\* conv_manager.get_history(last_n=5)
CacheLastN == 5

\* .limit(10)
DurableLimit == 10

Reverse(seq) == [i \in 1 .. Len(seq) |-> seq[Len(seq) + 1 - i]]

\* query.limit(n)
Limit(seq, n) == SubSeq(seq, 1, IF Len(seq) < n THEN Len(seq) ELSE n)

\* redis.lrange(key, -last_n, -1), conversation.py lines 84-96
GetHistory(list, last_n) ==
    SubSeq(list, IF Len(list) > last_n THEN Len(list) - last_n + 1 ELSE 1, Len(list))

\* order_by(created_at.desc()).limit(10).all(), then reverse()  (lines 386-393)
DbMessages(rows) == Reverse(Limit(Reverse(rows), DurableLimit))

IdleTurn == [pc |-> "idle", n |-> 0, is_new |-> TRUE, has_session |-> FALSE,
             cache_seen |-> <<>>,
             durable_seen |-> <<>>, selected |-> <<>>, history |-> <<>>]

ChatInit ==
    /\ cache = <<>>
    /\ durable = <<>>
    /\ turn = IdleTurn

\* chat, lines 366-401 (chat_stream, lines 551-584): the cached history, the
\* fallback to the durable messages, and the history handed to the agent.
\* The first turn opens the conversation; a turn without a session id, or with
\* Redis down, sees no cached message; db_ok: the fallback query succeeds
ChatSelect(has_session, cache_ok, db_ok) ==
    LET is_new == turn.n = 0
        cached == IF has_session /\ cache_ok THEN GetHistory(cache, CacheLastN) ELSE <<>>
        selected == IF cached = <<>> /\ ~is_new
                    THEN IF db_ok THEN DbMessages(durable) ELSE <<>>
                    ELSE cached
    IN
    /\ turn.pc = "idle"
    /\ turn.n < MaxTurns
    /\ turn' = [turn EXCEPT !.pc = "running", !.is_new = is_new,
                            !.has_session = has_session,
                            !.cache_seen = IF has_session /\ cache_ok THEN cache ELSE <<>>,
                            !.durable_seen = IF db_ok THEN durable ELSE <<>>,
                            !.selected = selected,
                            !.history = HandedHistory(selected)]
    /\ UNCHANGED <<cache, durable>>

\* chat, lines 427-463: the agent has answered; the two messages go to the
\* session's list (cached of them arrive; a turn without a session id writes
\* to the list of a fresh session key) and, in one commit, to the durable store
ChatPersist(cached, db_ok) ==
    LET user == 2 * turn.n + 1
        assistant == 2 * turn.n + 2
    IN
    /\ turn.pc = "running"
    /\ cache' = (IF turn.has_session THEN cache ELSE <<>>)
                     \o SubSeq(<<user, assistant>>, 1, cached)
    /\ durable' = IF db_ok THEN durable \o <<user, assistant>> ELSE durable
    /\ turn' = [turn EXCEPT !.pc = "idle", !.n = @ + 1]

\* SESSION_TTL: the session's list expires
CacheExpire ==
    /\ cache # <<>>
    /\ cache' = <<>>
    /\ UNCHANGED <<durable, turn>>

(* ------------- page chunking (rag/chunking.py) --------------------------- *)

VARIABLES
    page,        \* the page handed to chunk_document_pages: its method and blocks
    chunks       \* the chunks returned for it, or <<>> before the call

chunkVars == <<page, chunks>>

\* largest number of blocks (prose passages and tables) of one page
MaxBlocks == 3

\* chunk_size: int = 300
ChunkSize == 300

\* overlap: int = 50
Overlap == 50

\* the word counts of a block: shorter than a chunk and longer than one
WordCounts == {100, 400}

ProseBlocks == [kind : {"prose"}, marker : {"none"}, header_lines : {0}, words : WordCounts]

\* pdf_extractor.py lines 294-296: "### Table i (Page n)" and the markdown of
\* extract_tables_as_markdown, whose header cells keep their line breaks
\* (lines 152-154) while the data cells lose them (lines 160-163)
PdfTables == [kind : {"table"}, marker : {"hash"}, header_lines : {1, 2}, words : WordCounts]

\* pptx_extractor.py lines 70-75: "--- Table Data ---", the markdown, "--- End Table ---"
PptxTables == [kind : {"table"}, marker : {"pptx"}, header_lines : {1}, words : WordCounts]

\* a PDF page is its raw text, if any, followed by its tables (pdf_extractor.py
\* lines 292-296); a slide is its shapes in their order (pptx_extractor.py 61-104)
Pages ==
    {[extraction_method |-> "pdfplumber", blocks |-> b] :
        b \in {x \in UNION {[1 .. n -> ProseBlocks \cup PdfTables] : n \in 1 .. MaxBlocks} :
                  \A i \in 2 .. Len(x) : x[i].kind = "table"}}
    \cup
    {[extraction_method |-> "python-pptx", blocks |-> b] :
        b \in UNION {[1 .. n -> ProseBlocks \cup PptxTables] : n \in 1 .. MaxBlocks}}

\* no page is being chunked
ChunkIdle ==
    /\ page = [extraction_method |-> "", blocks |-> <<>>]
    /\ chunks = <<>>

ChunkInit ==
    /\ page \in Pages
    /\ chunks = <<>>

RECURSIVE WordsOf(_, _, _)
\* the number of words of the blocks from s to e
WordsOf(blocks, s, e) == IF s > e THEN 0 ELSE blocks[s].words + WordsOf(blocks, s + 1, e)

\* table_pattern, line 122: a "[TABLE n" or "### Table n" line followed by a
\* line that starts and ends with "|"
Recognised(b) == b.kind = "table" /\ b.marker = "hash" /\ b.header_lines = 1

\* part.startswith("[TABLE") or part.startswith("### Table"), lines 134-138
StartsWithMarker(b) == b.kind = "table" /\ b.marker = "hash"

RECURSIVE PartEnd(_, _)
\* re.split, line 124: the last block of the part that begins at block s
PartEnd(blocks, s) ==
    IF Recognised(blocks[s]) \/ s = Len(blocks) \/ Recognised(blocks[s + 1])
    THEN s
    ELSE PartEnd(blocks, s + 1)

\* the whole of the blocks from s to e
Whole(blocks, s, e) == {<<j, 1, blocks[j].words>> : j \in s .. e}

\* words[i : i + chunk_size] of the text of the blocks from s to e: the pieces
\* of the blocks that fall between word lo and word hi
Window(blocks, s, e, lo, hi) ==
    {<<j, Max(lo, WordsOf(blocks, s, j - 1) + 1) - WordsOf(blocks, s, j - 1),
          Min(hi, WordsOf(blocks, s, j)) - WordsOf(blocks, s, j - 1)>> :
        j \in {x \in s .. e : /\ WordsOf(blocks, s, x - 1) + 1 <= hi
                              /\ WordsOf(blocks, s, x) >= lo}}

\* chunk_text, lines 10-32: windows of chunk_size words every chunk_size - overlap
ChunkText(blocks, s, e, chunk_size, overlap) ==
    LET total == WordsOf(blocks, s, e)
        step == chunk_size - overlap
    IN [k \in 1 .. ((total - 1) \div step) + 1 |->
           [chunk_type |-> "text",
            pieces |-> Window(blocks, s, e, (k - 1) * step + 1,
                              Min((k - 1) * step + chunk_size, total))]]

RECURSIVE ChunkWithTables(_, _)
\* _chunk_with_tables, lines 101-164, from block s on
ChunkWithTables(blocks, s) ==
    IF s > Len(blocks) THEN <<>>
    ELSE LET e == PartEnd(blocks, s) IN
         (IF StartsWithMarker(blocks[s])
          THEN <<[chunk_type |-> "table", pieces |-> Whole(blocks, s, e)]>>
          ELSE ChunkText(blocks, s, e, ChunkSize, Overlap))
         \o ChunkWithTables(blocks, e + 1)

\* chunk_document_pages, lines 52-89, for one page
ChunkDocumentPage(p) ==
    IF /\ p.extraction_method = "python-pptx"
       /\ 2 * WordsOf(p.blocks, 1, Len(p.blocks)) <= 3 * ChunkSize
    THEN <<[chunk_type |-> "slide", pieces |-> Whole(p.blocks, 1, Len(p.blocks))]>>
    ELSE IF \E i \in 1 .. Len(p.blocks) : p.blocks[i].kind = "table"
    THEN ChunkWithTables(p.blocks, 1)
    ELSE ChunkText(p.blocks, 1, Len(p.blocks), ChunkSize, Overlap)

\* chunk_document_pages is called on the page
ChunkDocumentPages ==
    /\ chunks = <<>>
    /\ chunks' = ChunkDocumentPage(page)
    /\ UNCHANGED page

(* ------------- the index bootstrap (rag/retrieval.py, main.py) ----------- *)

VARIABLES
    qdrant,      \* the Qdrant server: the collection names and the points of vehicle_docs
    boots        \* the calls of ensure_collection, one per start of the backend

bootVars == <<qdrant, boots>>

\* number of starts of the backend in one behaviour of BootstrapSpec
MaxBoots == 2

\* number of points uploaded in one behaviour of BootstrapSpec
MaxPoints == 2

\* number of recreate_collection calls in one behaviour of BootstrapSpec
MaxRecreates == 1

BootIds == 1 .. MaxBoots

\* COLLECTION_NAME = "vehicle_docs"
CollectionName == "vehicle_docs"

\* the collection test of ensure_collection inverted: create unless absent
MissingInverted(names) == CollectionName \in names

\* if COLLECTION_NAME not in [c.name for c in collections.collections]  (line 25)
Missing(names) == CollectionName \notin names

IdleBoot == [pc |-> "idle", listed |-> {}, creates |-> 0, deletes |-> 0,
             before |-> <<{}, 0>>, after |-> <<{}, 0>>]

\* a server with or without the collection of another application
BootInit ==
    /\ qdrant \in [names : {{}, {"other"}}, points : {0}, recreates : {0}]
    /\ boots = [b \in BootIds |-> IdleBoot]

\* a fresh server
BootIdle ==
    /\ qdrant = [names |-> {}, points |-> 0, recreates |-> 0]
    /\ boots = [b \in BootIds |-> IdleBoot]

\* the server as a caller can observe it
Observed == <<qdrant.names, qdrant.points>>

\* ensure_collection, lines 24-25: get_collections and the test; the call
\* returns at once when the collection is listed
EnsureList(b) ==
    /\ boots[b].pc = "idle"
    /\ boots' = [boots EXCEPT
                    ![b].pc = IF Missing(qdrant.names) THEN "creating" ELSE "returned",
                    ![b].listed = qdrant.names,
                    ![b].before = Observed,
                    ![b].after = Observed]
    /\ UNCHANGED qdrant

\* ensure_collection, lines 26-41: create_collection; the server refuses to
\* create a collection that exists, and main.py lines 48-51 catch the error
EnsureCreate(b) ==
    /\ boots[b].pc = "creating"
    /\ IF CollectionName \in qdrant.names
       THEN /\ boots' = [boots EXCEPT ![b].pc = "raised", ![b].creates = @ + 1,
                                      ![b].after = Observed]
            /\ UNCHANGED qdrant
       ELSE /\ qdrant' = [qdrant EXCEPT !.names = @ \cup {CollectionName}, !.points = 0]
            /\ boots' = [boots EXCEPT ![b].pc = "returned", ![b].creates = @ + 1,
                                      ![b].after = <<qdrant.names \cup {CollectionName}, 0>>]

\* upload_points, lines 55-60
UploadPoints ==
    /\ CollectionName \in qdrant.names
    /\ qdrant.points < MaxPoints
    /\ qdrant' = [qdrant EXCEPT !.points = @ + 1]
    /\ UNCHANGED boots

\* recreate_collection, lines 44-52, called by the re-index endpoint
RecreateCollection ==
    /\ qdrant.recreates < MaxRecreates
    /\ qdrant' = [names |-> qdrant.names \cup {CollectionName}, points |-> 0,
                  recreates |-> qdrant.recreates + 1]
    /\ UNCHANGED boots

(* ------------- the sessions of the short-term cache (rag/conversation.py) -- *)

VARIABLES
    redis,       \* the Redis lists: per session key, who appended each message
    issued,      \* the session keys the constructor has made up so far
    sreq         \* the chat request being served: position and locals

sessVars == <<redis, issued, sreq>>

\* number of users that send chat requests
MaxUsers == 2

\* number of session keys made up for one user
MaxSessions == 2

\* largest number of messages kept under one session key
MaxCached == 4

SessUsers == 1 .. MaxUsers

\* f"chat:{user_id}:{uuid4()}", conversation.py line 48: the user id and the uuid
SessionKeys == SessUsers \X (1 .. MaxSessions)

\* the user id a session key was derived from
KeyUser(key) == key[1]

\* ChatRequest.session_id: absent, or any string the client chooses to send
NoSession == <<0, 0>>

IdleSess == [pc |-> "idle", user |-> 0, session_key |-> NoSession, history |-> <<>>]

SessInit ==
    /\ redis = [k \in SessionKeys |-> <<>>]
    /\ issued = {}
    /\ sreq = IdleSess

\* ConversationManager.__init__ (lines 38-48) makes up a key from the user's id
\* and a fresh uuid; from_session (lines 50-68) takes the key it is given
SessionKey(u, session_id, fresh) ==
    IF session_id # NoSession THEN session_id ELSE <<u, fresh>>

\* chat, lines 366-381: the authenticated user u sends session_id; the manager
\* is built and get_history reads the list under its key
SessOpen(u, session_id, fresh) ==
    LET key == SessionKey(u, session_id, fresh) IN
    /\ sreq.pc = "idle"
    /\ session_id = NoSession => (<<u, fresh>> \notin issued /\ redis[<<u, fresh>>] = <<>>)
    /\ Len(redis[key]) + 2 <= MaxCached
    /\ sreq' = [pc |-> "running", user |-> u, session_key |-> key,
                history |-> GetHistory(redis[key], CacheLastN)]
    /\ issued' = IF session_id = NoSession THEN issued \cup {key} ELSE issued
    /\ UNCHANGED redis

\* chat, lines 427-432: add_message (lines 70-82) appends the user's message
\* and the answer to the list under the manager's key; cached: Redis is up
SessCache(cached) ==
    /\ sreq.pc = "running"
    /\ redis' = IF cached
                THEN [redis EXCEPT ![sreq.session_key] =
                         @ \o <<[role |-> "user", by |-> sreq.user],
                                [role |-> "assistant", by |-> sreq.user]>>]
                ELSE redis
    /\ sreq' = IdleSess
    /\ UNCHANGED issued

\* redis.expire(self.session_key, SESSION_TTL): a list expires
SessExpire(key) ==
    /\ redis[key] # <<>>
    /\ sreq.session_key # key
    /\ redis' = [redis EXCEPT ![key] = <<>>]
    /\ UNCHANGED <<issued, sreq>>

(* ------------- emit (rag/observability.py) -------------------------------- *)

VARIABLES
    obsActive,   \* _active_connections of observability.py
    store,       \* the rows of the events table, named by the emit call
    emits        \* the emit calls so far: what each was given and what it did

emitVars == <<obsActive, store, emits>>

\* number of emit calls in one behaviour of EmitSpec
MaxEmits == 3

\* number of subscribers of the event stream in one behaviour of EmitSpec
MaxSubscribers == 2

ObsConns == 1 .. MaxSubscribers

EmitInit ==
    /\ obsActive = {}
    /\ store = <<>>
    /\ emits = <<>>

\* add_connection, lines 63-69
ObsAddConnection(c) ==
    /\ c \notin obsActive
    /\ obsActive' = obsActive \cup {c}
    /\ UNCHANGED <<store, emits>>

\* remove_connection, lines 72-74
ObsRemoveConnection(c) ==
    /\ c \in obsActive
    /\ obsActive' = obsActive \ {c}
    /\ UNCHANGED <<store, emits>>

\* asyncio.get_running_loop() returns the loop on the loop's thread and raises
\* RuntimeError on every other thread; emit, lines 171-177
ScheduleBroadcast(on_loop) == IF on_loop THEN "scheduled" ELSE "skipped"

\* emit, lines 101-177: insert_event inside try/except Exception, then the
\* broadcast task.  on_loop: the caller runs on the event loop's thread;
\* store_ok: the insert succeeds
ObsEmit(on_loop, store_ok) ==
    LET n == Len(emits) + 1 IN
    /\ n <= MaxEmits
    /\ store' = IF store_ok THEN Append(store, n) ELSE store
    /\ emits' = Append(emits, [on_loop |-> on_loop, store_ok |-> store_ok,
                               raised |-> FALSE,
                               broadcast |-> ScheduleBroadcast(on_loop),
                               subscribers |-> obsActive])
    /\ UNCHANGED obsActive

(* ------------- the test-type filter (rag/query_filters.py, ---------------- *)
(* ------------- rag/metadata_extraction.py) ------------------------------- *)

(* A text is the sequence of its words and of the whitespace characters     *)
(* between them, the words in lower case, and a flag that says whether it   *)
(* was written in capitals.                                                 *)

VARIABLES
    mention,     \* the text of the query
    chunkText,   \* the text of the one chunk of a document
    filters,     \* the test_type filter extracted from the query
    payload,     \* the metadata.test_type stored with the chunk
    matched      \* whether the filtered search returned the chunk

filterVars == <<mention, chunkText, filters, payload, matched>>

\* longest run of whitespace between the two words of a phrase
MaxSpaces == 1

\* the characters \s matches
Whitespace == {" ", "\t"}

Runs == UNION {[1 .. n -> Whitespace] : n \in 0 .. MaxSpaces}

\* PATTERNS["test_type"], query_filters.py lines 18-24: the texts the pattern
\* matches
TestTypePattern ==
    {<<w>> \o r \o <<"test">> :
        w \in {"brake", "noise", "performance", "emission", "endurance",
               "durability", "load"},
        r \in Runs}
    \cup {<<"gradeability">>, <<"acceleration">>}
    \cup {<<"fuel">> \o r \o <<"consumption">> : r \in Runs}

\* TEST_TYPES, metadata_extraction.py lines 43-57
TEST_TYPES == <<"gradability", "brake", "noise", "cooling", "weighment", "agility",
                "articulation", "steering", "suspension", "emission", "durability",
                "performance", "safety">>

\* the texts of queries and chunks: a phrase of the pattern, or one test word
Texts ==
    [words : TestTypePattern \cup {<<TEST_TYPES[i]>> : i \in 1 .. Len(TEST_TYPES)},
     upper : BOOLEAN]

\* no value: None
NoValue == <<>>

NotYet == [set |-> FALSE, test_type |-> NoValue]

FilterIdle ==
    /\ mention = [words |-> <<TEST_TYPES[1]>>, upper |-> FALSE]
    /\ chunkText = [words |-> <<TEST_TYPES[1]>>, upper |-> FALSE]
    /\ filters = NotYet
    /\ payload = NotYet
    /\ matched = "unset"

FilterInit ==
    /\ mention \in Texts
    /\ chunkText \in Texts
    /\ filters = NotYet
    /\ payload = NotYet
    /\ matched = "unset"

\* str.lower()
Lower(text) == text.words

\* str.replace(old, new) on a lower-case text
Replace(words, old, new) ==
    [i \in 1 .. Len(words) |-> IF words[i] = old THEN new ELSE words[i]]

\* extract_filters_from_query, lines 59-62: PATTERNS["test_type"].search(query)
\* with re.IGNORECASE, then group(0).lower().replace(" ", "_")
ExtractFiltersFromQuery(query) ==
    IF query.words \in TestTypePattern
    THEN Replace(Lower(query), " ", "_")
    ELSE NoValue

\* extract_metadata, lines 113-121: the test words that occur in the lowered
\* text, in the order of TEST_TYPES; the first is the test_type
ExtractMetadata(text) ==
    LET text_lower == Lower(text)
        test_parameters ==
            SelectSeq(TEST_TYPES,
                      LAMBDA t : \E i \in 1 .. Len(text_lower) : text_lower[i] = t)
    IN IF test_parameters # <<>> THEN <<test_parameters[1]>> ELSE NoValue

\* merge_metadata, lines 160-184: the chunk's test_type when it has one
MergeMetadata(doc_metadata, chunk_metadata) ==
    IF chunk_metadata # NoValue THEN chunk_metadata ELSE doc_metadata

\* process_pdf, pipeline.py lines 113-150, on a document of one chunk
StoredTestType(text) == MergeMetadata(ExtractMetadata(text), ExtractMetadata(text))

\* extract_filters node, agentic_router.py lines 101-114; query, pipeline.py line 224
ExtractFilters ==
    /\ ~filters.set
    /\ filters' = [set |-> TRUE, test_type |-> ExtractFiltersFromQuery(mention)]
    /\ UNCHANGED <<mention, chunkText, payload, matched>>

\* process_pdf, pipeline.py lines 145-169: the payload of the chunk
IndexChunk ==
    /\ ~payload.set
    /\ payload' = [set |-> TRUE, test_type |-> StoredTestType(chunkText)]
    /\ UNCHANGED <<mention, chunkText, filters, matched>>

\* hybrid_search, retrieval.py lines 132-138: MatchValue on metadata.test_type
\* when the filter is given
FilteredSearch ==
    /\ filters.set /\ payload.set /\ matched = "unset"
    /\ matched' = IF filters.test_type = NoValue \/ payload.test_type = filters.test_type
                  THEN "hit" ELSE "miss"
    /\ UNCHANGED <<mention, chunkText, filters, payload>>

(* ------------- calls of classify_intent (rag/intent_classifier.py) -------- *)

VARIABLES
    cls          \* one call of classify_intent: its arguments, position and result

classifyVars == <<cls>>

NoResult == <<"", 0>>

\* the calls: a query, a history, use_llm
ClassifyCalls ==
    [pc : {"called"}, text : QueryTexts, history : SelectedHistories, use_llm : BOOLEAN,
     rules : {NoResult}, llm_calls : {0}, answer : {""}, result : {NoResult}]

ClassifyIdle ==
    cls = [pc |-> "called",
           text |-> [greets |-> FALSE, follows |-> FALSE, short |-> FALSE, offtopic |-> FALSE],
           history |-> <<>>, use_llm |-> FALSE,
           rules |-> NoResult, llm_calls |-> 0, answer |-> "", result |-> NoResult]

ClassifyInit == cls \in ClassifyCalls

\* classify_intent, lines 143-152: the fast path with the rules, and the
\* return of their result when the LLM is not asked
ClassifyRules ==
    LET has_history == cls.history # <<>>
        rules == ClassifyIntentRuleBased(cls.text, has_history)
    IN
    /\ cls.pc = "called"
    /\ cls' = IF UsesLlm(cls.text, has_history, cls.use_llm)
              THEN [cls EXCEPT !.pc = "llm", !.rules = rules]
              ELSE [cls EXCEPT !.pc = "returned", !.rules = rules, !.result = rules]

\* classify_intent, lines 149-152: classify_intent_llm (lines 83-127) and the
\* return of its result; answer: what _invoke_llm does
ClassifyLlm(answer) ==
    /\ cls.pc = "llm"
    /\ cls' = [cls EXCEPT !.pc = "returned", !.llm_calls = @ + 1, !.answer = answer,
                          !.result = ClassifyIntentLlm(cls.text, cls.history # <<>>, answer)]

(* --------------------------- specifications ----------------------------- *)

\* the generator, the fan-out and the chat history
\* the variables of the later sections
laterVars == <<bootVars, chunkVars, sessVars, emitVars, filterVars, classifyVars>>

serviceVars == <<nvidia, configVars, fanoutVars, chatVars, laterVars>>

vars == <<ingestVars, retrVars, traceVars, streamVars, serviceVars>>

queryVars == <<retrVars, traceVars, streamVars, serviceVars>>

LaterInit == BootIdle /\ ChunkIdle /\ SessInit /\ EmitInit /\ FilterIdle /\ ClassifyIdle

ServicesInit == NvidiaInit /\ ConfigInit /\ FanoutInit /\ ChatInit /\ LaterInit

\* no query is in progress
QueriesIdle == RetrievalInit /\ TraceInit /\ StreamIdle /\ ServicesInit

Init == IngestInit /\ QueriesIdle

SpecJobs == 1 .. MaxJobs

SpecUploads == 1 .. MaxUploads

Next ==
    \/ \E r \in SpecUploads, h \in Hashes, g \in Groups, k \in UploadKinds :
           UploadCheck(r, h, g, k) /\ UNCHANGED queryVars
    \/ \E r \in SpecUploads, stored \in BOOLEAN :
           UploadStore(r, stored) /\ UNCHANGED queryVars
    \/ \E r \in SpecUploads, dispatched \in BOOLEAN, out \in PipelineOutcomes :
           UploadDispatch(SpecJobs, r, dispatched, out) /\ UNCHANGED queryVars
    \/ \E j \in SpecJobs : TaskStart(j) /\ UNCHANGED queryVars
    \/ \E j \in SpecJobs, net \in BOOLEAN : TaskFetch(j, net) /\ UNCHANGED queryVars
    \/ \E j \in SpecJobs, out \in PipelineOutcomes :
           TaskProcess(j, out) /\ UNCHANGED queryVars
    \/ \E j \in SpecJobs : TaskFail(j) /\ UNCHANGED queryVars
    \/ \E d \in DocIds : RetryDocument(d) /\ UNCHANGED queryVars
    \/ \E d \in DocIds, dispatched \in BOOLEAN :
           RetryDispatch(SpecJobs, d, dispatched) /\ UNCHANGED queryVars
    \/ \E dispatched \in BOOLEAN : ReindexAll(SpecJobs, dispatched) /\ UNCHANGED queryVars
    \/ \E d \in DocIds : DeleteStores(d) /\ UNCHANGED queryVars
    \/ \E d \in DocIds : DeleteRow(d) /\ UNCHANGED queryVars

Spec == Init /\ [][Next]_vars

(* Jobs on one row.  The initial states are the fresh system and the       *)
(* states Spec reaches once an upload or an explicit retry has dispatched  *)
(* a job for row 1 (its object present, its object deleted, the row        *)
(* deleted), and the states an explicit retry leaves for a row that        *)
(* predates the object store (migrate_db.py: no object key, a local path). *)

LegacyDoc == [PendingDoc("h0", 1) EXCEPT !.object_key = NoKey, !.file_path = TRUE]

\* <<row 1, objects, localFiles, a job for row 1 is queued>>
WorkerForms ==
    { <<NoDoc, {}, {}, FALSE>>,
      <<PendingDoc("h1", 1), {ObjectKey(1, "h1")}, {}, TRUE>>,
      <<PendingDoc("h1", 1), {}, {}, TRUE>>,
      <<NoDoc, {}, {}, TRUE>>,
      <<LegacyDoc, {}, {1}, TRUE>>,
      <<LegacyDoc, {}, {}, TRUE>> }

WorkerInit ==
    /\ \E f \in WorkerForms :
           /\ docs = [d \in DocIds |-> IF d = 1 THEN f[1] ELSE NoDoc]
           /\ objects = f[2]
           /\ localFiles = f[3]
           /\ jobs = [j \in JobIds |->
                         IF j = 1 /\ f[4]
                         THEN [FreeJob EXCEPT !.pc = "queued", !.doc = 1]
                         ELSE FreeJob]
           /\ nextId = IF f[1].exists \/ f[4] THEN 2 ELSE 1
    /\ uploads = [r \in UploadIds |-> IdleUpload]
    /\ tempDirs = {}
    /\ deleting = {}
    /\ retrying = {}
    /\ points = {}
    /\ QueriesIdle

WorkerSpecJobs == 1 .. WorkerJobs

WorkerNext ==
    \/ \E j \in WorkerSpecJobs : TaskStart(j) /\ UNCHANGED queryVars
    \/ \E j \in WorkerSpecJobs, net \in BOOLEAN : TaskFetch(j, net) /\ UNCHANGED queryVars
    \/ \E j \in WorkerSpecJobs, out \in PipelineOutcomes :
           TaskProcess(j, out) /\ UNCHANGED queryVars
    \/ \E j \in WorkerSpecJobs : TaskFail(j) /\ UNCHANGED queryVars
    \/ \E d \in DocIds : RetryDocument(d) /\ UNCHANGED queryVars
    \/ \E d \in DocIds, dispatched \in BOOLEAN :
           RetryDispatch(WorkerSpecJobs, d, dispatched) /\ UNCHANGED queryVars

WorkerSpec == WorkerInit /\ [][WorkerNext]_vars

CleanupSpecJobs == 1 .. CleanupJobs

CleanupNext ==
    \/ \E r \in SpecUploads, h \in Hashes, g \in Groups, k \in UploadKinds :
           UploadCheck(r, h, g, k) /\ UNCHANGED queryVars
    \/ \E r \in SpecUploads, stored \in BOOLEAN :
           UploadStore(r, stored) /\ UNCHANGED queryVars
    \/ \E r \in SpecUploads, dispatched \in BOOLEAN, out \in PipelineOutcomes :
           UploadDispatch(CleanupSpecJobs, r, dispatched, out) /\ UNCHANGED queryVars
    \/ \E j \in CleanupSpecJobs : TaskStart(j) /\ UNCHANGED queryVars
    \/ \E j \in CleanupSpecJobs, net \in BOOLEAN : TaskFetch(j, net) /\ UNCHANGED queryVars
    \/ \E j \in CleanupSpecJobs, out \in PipelineOutcomes :
           TaskProcess(j, out) /\ UNCHANGED queryVars
    \/ \E j \in CleanupSpecJobs : TaskFail(j) /\ UNCHANGED queryVars

CleanupSpec == WorkerInit /\ [][CleanupNext]_vars

\* upload requests served side by side by the processes of the API server
UploadSpecUploads == 1 .. ConcurrentUploads

UploadNext ==
    \/ \E r \in UploadSpecUploads, h \in Hashes, g \in Groups, k \in UploadKinds :
           UploadCheck(r, h, g, k) /\ UNCHANGED queryVars
    \/ \E r \in UploadSpecUploads, stored \in BOOLEAN :
           UploadStore(r, stored) /\ UNCHANGED queryVars
    \/ \E r \in UploadSpecUploads, dispatched \in BOOLEAN, out \in PipelineOutcomes :
           UploadDispatch(SpecJobs, r, dispatched, out) /\ UNCHANGED queryVars

UploadSpec == Init /\ [][UploadNext]_vars

\* a retrieval reads the collection only, so one behaviour makes one retrieval
RetrievalNext ==
    \/ \E G \in SUBSET GroupIds :
           /\ lastQuery = NoQuery
           /\ Search(G)
           /\ UNCHANGED <<ingestVars, traceVars, streamVars, serviceVars>>
    \/ \E G \in SUBSET GroupIds, f \in FilterDicts :
           /\ lastQuery = NoQuery
           /\ HybridSearch(G, f)
           /\ UNCHANGED <<ingestVars, traceVars, streamVars, serviceVars>>
    \/ \E G \in SUBSET GroupIds, g \in {0} \cup GroupIds, f \in FilterDicts :
           /\ lastQuery = NoQuery
           /\ RetrieveNode(G, g, f)
           /\ UNCHANGED <<ingestVars, traceVars, streamVars, serviceVars>>

RetrievalSpec == Init /\ [][RetrievalNext]_vars

QueryNext ==
    \/ \E q \in QueryIds, h \in SelectedHistories :
           AgentRequest(q, HandedHistory(h)) /\ UNCHANGED <<ingestVars, retrVars, streamVars, serviceVars>>
    \/ \E q \in QueryIds, text \in QueryTexts, answer \in LlmCategories :
           ClassifyIntentNode(q, text, answer)
           /\ UNCHANGED <<ingestVars, retrVars, streamVars, serviceVars>>
    \/ \E q \in QueryIds :
           HandleGreetingNode(q) /\ UNCHANGED <<ingestVars, retrVars, streamVars, serviceVars>>
    \/ \E q \in QueryIds :
           HandleOutOfScopeNode(q) /\ UNCHANGED <<ingestVars, retrVars, streamVars, serviceVars>>
    \/ \E q \in QueryIds :
           ExtractMetadataNode(q) /\ UNCHANGED <<ingestVars, retrVars, streamVars, serviceVars>>
    \/ \E q \in QueryIds, ok \in BOOLEAN, n \in 0 .. 1 :
           AgentRetrieveNode(q, ok, n) /\ UNCHANGED <<ingestVars, retrVars, streamVars, serviceVars>>
    \/ \E q \in QueryIds, ok \in BOOLEAN :
           GenerateNode(q, ok) /\ UNCHANGED <<ingestVars, retrVars, streamVars, serviceVars>>
    \/ \E q \in QueryIds : AgentResponse(q) /\ UNCHANGED <<ingestVars, retrVars, streamVars, serviceVars>>
    \/ \E q \in QueryIds, check \in {"ok", "no_groups", "forbidden"} :
           QueryIngress(q, check) /\ UNCHANGED <<ingestVars, retrVars, streamVars, serviceVars>>
    \/ \E q \in QueryIds, outcome \in {"ok", "search_raises", "llm_raises"}, n \in 0 .. 1 :
           GenerateAnswer(q, outcome, n) /\ UNCHANGED <<ingestVars, retrVars, streamVars, serviceVars>>
    \/ \E q \in QueryIds : QueryResponse(q) /\ UNCHANGED <<ingestVars, retrVars, streamVars, serviceVars>>

QuerySpec == Init /\ [][QueryNext]_vars

\* no agent run is between its request and its return
NoRunInFlight == \A q \in QueryIds : queries[q].pc \in {"idle", "returned", "raised"}

\* the agent graph alone, run after run: a run keeps its state in its own
\* AgentState and shares none of it with another run
AgentNext ==
    \/ \E q \in QueryIds, h \in SelectedHistories :
           /\ NoRunInFlight
           /\ AgentRequest(q, HandedHistory(h))
           /\ UNCHANGED <<ingestVars, retrVars, streamVars, serviceVars>>
    \/ \E q \in QueryIds, text \in QueryTexts, answer \in LlmCategories :
           ClassifyIntentNode(q, text, answer)
           /\ UNCHANGED <<ingestVars, retrVars, streamVars, serviceVars>>
    \/ \E q \in QueryIds :
           HandleGreetingNode(q) /\ UNCHANGED <<ingestVars, retrVars, streamVars, serviceVars>>
    \/ \E q \in QueryIds :
           HandleOutOfScopeNode(q) /\ UNCHANGED <<ingestVars, retrVars, streamVars, serviceVars>>
    \/ \E q \in QueryIds :
           ExtractMetadataNode(q) /\ UNCHANGED <<ingestVars, retrVars, streamVars, serviceVars>>
    \/ \E q \in QueryIds, ok \in BOOLEAN, n \in 0 .. 1 :
           AgentRetrieveNode(q, ok, n) /\ UNCHANGED <<ingestVars, retrVars, streamVars, serviceVars>>
    \/ \E q \in QueryIds, ok \in BOOLEAN :
           GenerateNode(q, ok) /\ UNCHANGED <<ingestVars, retrVars, streamVars, serviceVars>>
    \/ \E q \in QueryIds : AgentResponse(q) /\ UNCHANGED <<ingestVars, retrVars, streamVars, serviceVars>>

AgentSpec == Init /\ [][AgentNext]_vars

StreamSpecInit == IngestInit /\ RetrievalInit /\ TraceInit /\ StreamInit /\ ServicesInit

ProducerStep ==
    \/ \E c \in Deltas : AgentPut(c) /\ UNCHANGED <<ingestVars, retrVars, traceVars, serviceVars>>
    \/ AgentEnd /\ UNCHANGED <<ingestVars, retrVars, traceVars, serviceVars>>
    \/ BackgroundReturn /\ UNCHANGED <<ingestVars, retrVars, traceVars, serviceVars>>
    \/ BackgroundRaise /\ UNCHANGED <<ingestVars, retrVars, traceVars, serviceVars>>

ConsumerGetStep == ConsumerGet /\ UNCHANGED <<ingestVars, retrVars, traceVars, serviceVars>>

ConsumerEndStep == ConsumerEnd /\ UNCHANGED <<ingestVars, retrVars, traceVars, serviceVars>>

StreamNext ==
    \/ \E c \in Deltas : AgentPut(c) /\ UNCHANGED <<ingestVars, retrVars, traceVars, serviceVars>>
    \/ AgentEnd /\ UNCHANGED <<ingestVars, retrVars, traceVars, serviceVars>>
    \/ BackgroundReturn /\ UNCHANGED <<ingestVars, retrVars, traceVars, serviceVars>>
    \/ BackgroundRaise /\ UNCHANGED <<ingestVars, retrVars, traceVars, serviceVars>>
    \/ ConsumerGetStep
    \/ ConsumerEndStep

\* the thread runs until it ends; the event loop keeps resuming the generator
StreamSpec ==
    /\ StreamSpecInit
    /\ [][StreamNext]_vars
    /\ WF_vars(ProducerStep)
    /\ WF_vars(ConsumerGetStep)
    /\ WF_vars(ConsumerEndStep)

\* everything but the cloud-chat call
NvidiaOthers == <<ingestVars, retrVars, traceVars, streamVars, configVars, fanoutVars,
                  chatVars, laterVars>>

CloudChatNext ==
    \/ \E has_key \in BOOLEAN : CallNvidiaApi(has_key) /\ UNCHANGED NvidiaOthers
    \/ \E outcome \in PostOutcomes : NvidiaPost(outcome) /\ UNCHANGED NvidiaOthers

CloudChatSpec == Init /\ [][CloudChatNext]_vars

\* everything but the generator configuration
ConfigOthers == <<ingestVars, retrVars, traceVars, streamVars, nvidia, fanoutVars,
                  chatVars, laterVars>>

\* the admin interface updates the configuration while request threads run
ConfigNext ==
    \/ \E changes \in Changes : UpdateConfig(changes) /\ UNCHANGED ConfigOthers
    \/ UpdateRebuild /\ UNCHANGED ConfigOthers
    \/ \E t \in CreatorIds : GetOllamaLlm(t) /\ UNCHANGED ConfigOthers
    \/ \E t \in CreatorIds : StoreOllamaLlm(t) /\ UNCHANGED ConfigOthers

ConfigSpec == Init /\ [][ConfigNext]_vars

\* everything but the fan-out
FanoutOthers == <<ingestVars, retrVars, traceVars, streamVars, nvidia, configVars,
                  chatVars, laterVars>>

\* the tasks of the event loop, one step of one of them at a time
FanoutNext ==
    \/ \E c \in ConnIds : AddConnection(c) /\ UNCHANGED FanoutOthers
    \/ \E c \in ConnIds : Break(c) /\ UNCHANGED FanoutOthers
    \/ \E c \in ConnIds : RemoveConnection(c) /\ UNCHANGED FanoutOthers
    \/ \E on_loop \in BOOLEAN : Emit(on_loop) /\ UNCHANGED FanoutOthers
    \/ \E e \in EventIds : BroadcastStart(e) /\ UNCHANGED FanoutOthers
    \/ \E e \in EventIds : BroadcastStep(e) /\ UNCHANGED FanoutOthers

FanoutSpec == Init /\ [][FanoutNext]_vars

\* everything but the chat history
ChatOthers == <<ingestVars, retrVars, traceVars, streamVars, nvidia, configVars,
                fanoutVars, laterVars>>

ChatNext ==
    \/ \E has_session \in BOOLEAN, cache_ok \in BOOLEAN, db_ok \in BOOLEAN :
           ChatSelect(has_session, cache_ok, db_ok) /\ UNCHANGED ChatOthers
    \/ \E cached \in 0 .. 2, db_ok \in BOOLEAN :
           ChatPersist(cached, db_ok) /\ UNCHANGED ChatOthers
    \/ CacheExpire /\ UNCHANGED ChatOthers

ChatSpec == Init /\ [][ChatNext]_vars

\* the variables the bootstrap leaves alone
BootOthers == <<ingestVars, retrVars, traceVars, streamVars, nvidia, configVars,
                fanoutVars, chatVars, chunkVars, sessVars, emitVars,
                filterVars, classifyVars>>

\* starts of the backend, uploads and a re-index against one Qdrant server
BootstrapNext ==
    \/ \E b \in BootIds : EnsureList(b) /\ UNCHANGED BootOthers
    \/ \E b \in BootIds : EnsureCreate(b) /\ UNCHANGED BootOthers
    \/ UploadPoints /\ UNCHANGED BootOthers
    \/ RecreateCollection /\ UNCHANGED BootOthers

\* the start of BootstrapSpec: a server with or without the collection of
\* another application, all else at rest
BootstrapStart ==
    /\ IngestInit /\ RetrievalInit /\ TraceInit /\ StreamIdle
    /\ NvidiaInit /\ ConfigInit /\ FanoutInit /\ ChatInit /\ BootInit /\ ChunkIdle
    /\ SessInit /\ EmitInit /\ FilterIdle /\ ClassifyIdle

BootstrapSpec == BootstrapStart /\ [][BootstrapNext]_vars

\* chunk_document_pages applied to one page
ChunkNext ==
    ChunkDocumentPages
    /\ UNCHANGED <<ingestVars, retrVars, traceVars, streamVars, nvidia, configVars,
                   fanoutVars, chatVars, bootVars, sessVars, emitVars,
                   filterVars, classifyVars>>

\* the start of ChunkSpec: any page, all else at rest
ChunkStart ==
    /\ IngestInit /\ RetrievalInit /\ TraceInit /\ StreamIdle
    /\ NvidiaInit /\ ConfigInit /\ FanoutInit /\ ChatInit /\ BootIdle /\ ChunkInit
    /\ SessInit /\ EmitInit /\ FilterIdle /\ ClassifyIdle

ChunkSpec == ChunkStart /\ [][ChunkNext]_vars

\* the variables the session cache leaves alone
SessOthers == <<ingestVars, retrVars, traceVars, streamVars, nvidia, configVars,
                fanoutVars, chatVars, bootVars, chunkVars, emitVars,
                filterVars, classifyVars>>

\* chat requests of the users, with the session ids they choose to send
SessionNext ==
    \/ \E u \in SessUsers, session_id \in SessionKeys \cup {NoSession},
          fresh \in 1 .. MaxSessions :
           SessOpen(u, session_id, fresh) /\ UNCHANGED SessOthers
    \/ \E cached \in BOOLEAN : SessCache(cached) /\ UNCHANGED SessOthers
    \/ \E key \in SessionKeys : SessExpire(key) /\ UNCHANGED SessOthers

SessionSpec == Init /\ [][SessionNext]_vars


\* the variables emit leaves alone
EmitOthers == <<ingestVars, retrVars, traceVars, streamVars, nvidia, configVars,
                fanoutVars, chatVars, bootVars, chunkVars, sessVars,
                filterVars, classifyVars>>

\* emit calls on the threads of the API server, subscribers coming and going
EmitNext ==
    \/ \E c \in ObsConns : ObsAddConnection(c) /\ UNCHANGED EmitOthers
    \/ \E c \in ObsConns : ObsRemoveConnection(c) /\ UNCHANGED EmitOthers
    \/ \E on_loop \in BOOLEAN, store_ok \in BOOLEAN :
           ObsEmit(on_loop, store_ok) /\ UNCHANGED EmitOthers

EmitSpec == Init /\ [][EmitNext]_vars

\* the variables the filter leaves alone
FilterOthers == <<ingestVars, retrVars, traceVars, streamVars, nvidia, configVars,
                  fanoutVars, chatVars, bootVars, chunkVars, sessVars, emitVars,
                  classifyVars>>

\* one query and one chunk: the filter, the payload and the filtered search
FilterNext ==
    \/ ExtractFilters /\ UNCHANGED FilterOthers
    \/ IndexChunk /\ UNCHANGED FilterOthers
    \/ FilteredSearch /\ UNCHANGED FilterOthers

\* the start of FilterSpec: any query and any chunk, all else at rest
FilterStart ==
    /\ IngestInit /\ RetrievalInit /\ TraceInit /\ StreamIdle
    /\ NvidiaInit /\ ConfigInit /\ FanoutInit /\ ChatInit /\ BootIdle /\ ChunkIdle
    /\ SessInit /\ EmitInit /\ FilterInit /\ ClassifyIdle

FilterSpec == FilterStart /\ [][FilterNext]_vars

\* the variables classify_intent leaves alone
ClassifyOthers == <<ingestVars, retrVars, traceVars, streamVars, nvidia, configVars,
                    fanoutVars, chatVars, bootVars, chunkVars, sessVars, emitVars,
                    filterVars>>

\* one call of classify_intent on any query, history and use_llm
ClassifyNext ==
    \/ ClassifyRules /\ UNCHANGED ClassifyOthers
    \/ \E answer \in LlmCategories : ClassifyLlm(answer) /\ UNCHANGED ClassifyOthers

\* the start of ClassifySpec: any call, all else at rest
ClassifyStart ==
    /\ IngestInit /\ RetrievalInit /\ TraceInit /\ StreamIdle
    /\ NvidiaInit /\ ConfigInit /\ FanoutInit /\ ChatInit /\ BootIdle /\ ChunkIdle
    /\ SessInit /\ EmitInit /\ FilterIdle /\ ClassifyInit

ClassifySpec == ClassifyStart /\ [][ClassifyNext]_vars

(* ------------------------------- claims --------------------------------- *)

\* the group ids a retrieval was asked for
Requested(query) ==
    IF query.op = "retrieve_node" /\ query.group_id # 0
    THEN {query.group_id}
    ELSE query.group_ids

\* C1: access confinement.  Every chunk returned by search, by hybrid_search
\* under any combination of the optional filters, and by the retrieve node
\* (accessible groups G, optional target group g) has its metadata.group_id
\* among the group ids that were requested.
C1_AccessConfinement == \A h \in hits : h.group_id \in Requested(lastQuery)

\* a filtered retrieve-node search over two of the groups returns a chunk of each
C1_Witness ==
    /\ lastQuery.op = "retrieve_node"
    /\ lastQuery.group_id = 0
    /\ lastQuery.group_ids = {1, 2}
    /\ lastQuery.filters.doc_id # ""
    /\ Cardinality(hits) = 2

StatusRank(s) ==
    CASE s = "pending" -> 0
      [] s = "processing" -> 1
      [] s = "done" -> 2
      [] s = "failed" -> 2

\* C2: status monotonicity.  Every change of a document's processing_status
\* moves forward along pending -> processing -> done or pending -> processing
\* -> failed, except that done or failed goes back to pending, and then only
\* in a step of the explicit retry action.
C2_StatusMonotone ==
    [][\A d \in DocIds :
          (/\ docs[d].exists
           /\ docs'[d].exists
           /\ docs'[d].processing_status # docs[d].processing_status)
          => \/ StatusRank(docs[d].processing_status)
                    < StatusRank(docs'[d].processing_status)
             \/ /\ docs[d].processing_status \in {"done", "failed"}
                /\ docs'[d].processing_status = "pending"
                /\ RetryDocument(d)]_vars

\* C3: hash-based dedupe.  In every reachable state no two document records
\* share the same (file_hash, group_id).
C3_NoDuplicateRecords ==
    \A d1, d2 \in DocIds :
        (d1 # d2 /\ docs[d1].exists /\ docs[d2].exists)
        => <<docs[d1].file_hash, docs[d1].group_id>>
               # <<docs[d2].file_hash, docs[d2].group_id>>

\* C4: the upload handler never runs the pipeline itself.  Every upload that
\* returns the document id returns it with status pending and has not run
\* extraction, chunking or indexing on the request path.
C4_UploadReturnsPending ==
    \A r \in UploadIds :
        uploads[r].pc = "returned" => (uploads[r].result = "pending" /\ ~uploads[r].ran)

\* C5: ingestion retry.  When an attempt that follows a failed attempt of the
\* same job succeeds, the document has status done, chunk_count equal to the
\* number of chunks that attempt indexed, processing_error cleared, and the
\* table still holds the one record of the document.
C5_RetrySucceeds ==
    [][\A j \in JobIds :
          (jobs[j].pc = "fetched" /\ jobs'[j].pc = "done" /\ jobs[j].retries >= 1)
          => /\ docs'[jobs[j].doc].processing_status = "done"
             /\ docs'[jobs[j].doc].chunk_count = jobs'[j].chunks
             /\ docs'[jobs[j].doc].processing_error = NoErr
             /\ {x \in DocIds : docs'[x].exists} = {jobs[j].doc}]_vars

\* the second attempt of a job has succeeded and indexed a chunk
C5_Witness ==
    \E j \in JobIds :
        /\ jobs[j].pc = "done"
        /\ jobs[j].result = "done"
        /\ jobs[j].retries = 1
        /\ jobs[j].chunks >= 1
        /\ docs[jobs[j].doc].processing_status = "done"
        /\ docs[jobs[j].doc].chunk_count = jobs[j].chunks

\* C6: bounded retry.  A job runs at most three attempts; when its last
\* attempt fails the document gets status failed and processing_error equal
\* to the exception message cut to at most 500 characters; a finished job
\* makes no further attempt.
C6_BoundedRetry ==
    [][\A j \in JobIds :
          /\ jobs'[j].attempts <= 3
          /\ (jobs[j].pc = "failing" /\ jobs'[j].pc = "done" /\ docs[jobs[j].doc].exists)
             => /\ docs'[jobs[j].doc].processing_status = "failed"
                /\ docs'[jobs[j].doc].processing_error.kind = jobs[j].exc.kind
                /\ docs'[jobs[j].doc].processing_error.len
                       = (IF jobs[j].exc.len > 500 THEN 500 ELSE jobs[j].exc.len)
          /\ jobs[j].pc = "done" => jobs'[j] = jobs[j]]_vars

\* a job has failed three times, the last time with a message over 500 characters
C6_Witness ==
    \E j \in JobIds :
        /\ jobs[j].pc = "done"
        /\ jobs[j].result = "failed"
        /\ jobs[j].attempts = 3
        /\ docs[jobs[j].doc].processing_status = "failed"
        /\ docs[jobs[j].doc].processing_error.len = 500

\* C7: data-consistency failures are not retried.  An attempt that fails
\* because the object is missing although the object key is set, or because
\* the document has no file source, is never followed by another attempt of
\* the job.
C7_ConsistencyNotRetried ==
    [][\A j \in JobIds :
          (jobs[j].pc = "failing" /\ jobs[j].exc.kind \in {"objmissing", "nosource"})
          => jobs'[j].pc # "queued"]_vars

\* the executions that are between their mkdtemp and their finally block
OpenDirs ==
    {UploadDir(r) : r \in {x \in UploadIds : uploads[x].pc \in {"checked", "created"}}}
    \cup {TaskDir(j) : j \in {x \in JobIds : jobs[x].pc \in {"fetched", "failing"}}}

\* C8: temp-directory cleanup.  Every temp directory on disk belongs to an
\* upload request or a worker attempt that has not exited yet: whichever way
\* an execution exits, the directory it made is gone.
C8_TempDirsCleaned == tempDirs \subseteq OpenDirs

\* an upload has returned, a worker attempt has exited, and no directory is left
C8_Witness ==
    /\ \E r \in UploadIds : uploads[r].pc = "returned"
    /\ \E j \in JobIds : jobs[j].attempts >= 1 /\ jobs[j].pc \in {"queued", "done"}
    /\ tempDirs = {}

\* the positions in the event log of the events of type t that request q emitted
EventsOf(q, t) ==
    {i \in 1 .. Len(events) : events[i].q = q /\ events[i].event_type = t}

\* C9: trace completeness.  For every query that returned successfully there
\* is one request event and exactly one response event, the response event
\* carries the trace id of the request event, and for a document query there
\* are retrieval and generation events with that trace id.
C9_TraceComplete ==
    \A q \in QueryIds :
        queries[q].pc = "returned"
        => /\ Cardinality(EventsOf(q, "REQUEST")) = 1
           /\ Cardinality(EventsOf(q, "RESPONSE")) = 1
           /\ \A i \in EventsOf(q, "REQUEST"), k \in EventsOf(q, "RESPONSE") :
                 /\ events[k].trace_id = events[i].trace_id
                 /\ queries[q].intent = "document_query"
                    => /\ \E m \in EventsOf(q, "RETRIEVAL") :
                             events[m].trace_id = events[i].trace_id
                       /\ \E m \in EventsOf(q, "GENERATION") :
                             events[m].trace_id = events[i].trace_id

\* the contents of the chunk events yielded so far, in order
ChunkContents == [i \in 1 .. Len(SelectSeq(sse, LAMBDA e : e.type = "chunk")) |->
                     SelectSeq(sse, LAMBDA e : e.type = "chunk")[i].content]

StreamShape ==
    /\ \A i \in 1 .. Len(sse) :
          sse[i].type = "end" => (i = Len(sse) /\ consumer.pc = "closed")
    /\ ChunkContents = SubSeq(producer.sent, 1, Len(ChunkContents))
    /\ consumer.pc = "closed"
       => /\ Len(sse) = Len(producer.sent) + 1
          /\ sse[Len(sse)].type = "end"
          /\ sse[Len(sse)].error = (producer.pc = "raised")

NodePath(intent) ==
    IF intent = "greeting" THEN <<"classify_intent", "handle_greeting">>
    ELSE IF intent = "out_of_scope" THEN <<"classify_intent", "handle_out_of_scope">>
    ELSE <<"classify_intent", "extract_metadata", "retrieve", "generate">>

IsPrefix(a, b) == Len(a) <= Len(b) /\ a = SubSeq(b, 1, Len(a))

\* C11: agent graph routing.  Every run starts at classify_intent and then
\* runs the nodes of exactly one path chosen by the classified intent:
\* handle_greeting for greeting, handle_out_of_scope for out_of_scope,
\* extract_metadata, retrieve, generate in that order for every other intent;
\* a run that ends has run each node of its path once and no other node.
C11_AgentRouting ==
    \A q \in QueryIds :
        (queries[q].path = "agent" /\ queries[q].trail # <<>>)
        => /\ IsPrefix(queries[q].trail, NodePath(queries[q].intent))
           /\ queries[q].pc \in {"END", "returned"}
              => queries[q].trail = NodePath(queries[q].intent)

\* a refusal and a document query have both run to their end
C11_Witness ==
    /\ \E q \in QueryIds :
          /\ queries[q].pc = "returned"
          /\ queries[q].intent = "out_of_scope"
          /\ Len(queries[q].trail) = 2
    /\ \E q \in QueryIds :
          /\ queries[q].pc = "returned"
          /\ queries[q].intent = "document_query"
          /\ Len(queries[q].trail) = 4

C13_EmptyContextRefusal ==
    \A q \in QueryIds :
        (/\ queries[q].path = "agent"
         /\ queries[q].pc \in {"END", "returned"}
         /\ queries[q].intent \notin {"greeting", "out_of_scope"}
         /\ queries[q].chunks = 0)
        => queries[q].response
               = "This information is not available in the uploaded documents."

\* C14: document destruction.  When delete_document succeeds for a document
\* that was uploaded to the object store and ingested by the worker, neither
\* its object nor any index point produced from it remains.
C14_DocumentDestroyed ==
    [][\A d \in DocIds :
          (/\ DeleteRow(d)
           /\ docs[d].object_key # NoKey
           /\ ~docs[d].file_path
           /\ docs[d].processing_status = "done"
           /\ \A j \in JobIds : jobs[j].doc = d => jobs[j].pc = "done")
          => /\ docs[d].object_key \notin objects'
             /\ \A p \in points' : p.doc # d]_vars

\* the outcomes that are a connection or timeout failure
IsRetried(outcome) == outcome \in {"connection_error", "timeout", "connect_timeout"}

\* C15: cloud-chat retry.  One buffered call sends at most four requests; a
\* request is followed by another only after a connection or timeout failure,
\* and then after a wait of 1, 2 and 4 seconds for attempts 1, 2 and 3; the
\* call raises after the fourth such failure and returns on the first
\* successful response.
C15_CloudChatRetry ==
    LET n == Len(nvidia.requests) IN
    /\ n <= 4
    /\ \A i \in 1 .. n : i < n => IsRetried(nvidia.requests[i])
    /\ Len(nvidia.sleeps) <= 3
    /\ \A i \in 1 .. Len(nvidia.sleeps) : nvidia.sleeps[i] = 2 ^ (i - 1)
    /\ nvidia.pc = "posting" => Len(nvidia.sleeps) = n
    /\ nvidia.pc = "returned" => (n >= 1 /\ nvidia.requests[n] = "ok")
    /\ (n >= 1 /\ nvidia.requests[n] = "ok") => nvidia.pc = "returned"
    /\ (n >= 1 /\ ~IsRetried(nvidia.requests[n]) /\ nvidia.requests[n] # "ok")
       => nvidia.pc = "raised"
    /\ (n >= 1 /\ IsRetried(nvidia.requests[n]))
       => IF n = 4 THEN nvidia.pc = "raised" /\ Len(nvidia.sleeps) = 3
          ELSE nvidia.pc = "posting"

\* the call has raised after four connection or timeout failures and three waits
C15_Witness ==
    /\ nvidia.pc = "raised"
    /\ Len(nvidia.requests) = 4
    /\ nvidia.sleeps = <<1, 2, 4>>

\* C16: provider failures stay inside the generator.  When the LLM provider
\* fails, no exception leaves the generator into the agent graph: the run
\* still completes, and its answer is a typed error, not answer text.
C16_ProviderFailureContained ==
    \A q \in QueryIds :
        (queries[q].path = "agent" /\ queries[q].provider_failed)
        => /\ queries[q].pc # "raised"
           /\ queries[q].pc = "returned" => queries[q].response = "error"

\* C17: generator configuration.  Whenever update_provider and the lazy client
\* creations have returned, a cached local client was built from the current
\* local model name and base URL, so a generation request that starts then
\* never uses a client of the previous model or URL.
C17_CachedClientCurrent ==
    (/\ updater.pc = "idle"
     /\ \A t \in CreatorIds : creators[t].pc # "building"
     /\ ollama_llm_cache # NoClient)
    => ollama_llm_cache = [model |-> cfg.ollama_model, base_url |-> cfg.ollama_base_url]

\* C18: failed sends prune the subscriber set.  When a broadcast ends, every
\* subscriber to which its send failed is out of the active set, and the
\* broadcast has removed no subscriber to which its send succeeded.
C18_FailedSendsPruned ==
    [][\A e \in EventIds :
          (tasks[e].pc = "running" /\ tasks'[e].pc = "done")
          => /\ tasks[e].failed \cap active' = {}
             /\ tasks[e].sent \cap (active \ active') = {}]_vars

\* C19: per-subscriber order.  Every subscriber receives the events it
\* receives in the order they were emitted, however the broadcast tasks
\* interleave.
C19_PerSubscriberOrder ==
    \A c \in ConnIds :
        \A i, k \in 1 .. Len(received[c]) : i < k => received[c][i] < received[c][k]

\* the last ten of the messages, oldest first
LastTen(msgs) == [i \in 1 .. (IF Len(msgs) > 10 THEN 10 ELSE Len(msgs)) |->
                     msgs[Len(msgs) - (IF Len(msgs) > 10 THEN 10 ELSE Len(msgs)) + i]]

\* the most recent cached messages, oldest first
LastFive(msgs) == [i \in 1 .. (IF Len(msgs) > 5 THEN 5 ELSE Len(msgs)) |->
                      msgs[Len(msgs) - (IF Len(msgs) > 5 THEN 5 ELSE Len(msgs)) + i]]

\* C20: history selection.  For a chat turn on an existing conversation the
\* history handed to the agent is the cached recent messages when the cache
\* holds any, and otherwise the ten most recent durable messages, oldest
\* first; it is empty only when both sources are empty or unreachable.
C20_HistorySelection ==
    (turn.pc = "running" /\ ~turn.is_new)
    => turn.history = (IF turn.cache_seen # <<>>
                       THEN LastFive(turn.cache_seen)
                       ELSE LastTen(turn.durable_seen))

\* C21: idempotent index bootstrap.  A call of ensure_collection that finds
\* the collection present does no create and no delete and returns with the
\* collections and the points as it found them.
C21_EnsureIdempotent ==
    \A b \in BootIds :
        (boots[b].pc # "idle" /\ CollectionName \in boots[b].listed)
        => /\ boots[b].pc = "returned"
           /\ boots[b].creates = 0
           /\ boots[b].deletes = 0
           /\ boots[b].after = boots[b].before

\* a second start has found the collection, with points in it, and returned
C21_Witness ==
    \E a, b \in BootIds :
        /\ boots[a].pc = "returned" /\ boots[a].creates = 1
        /\ boots[b].pc = "returned" /\ CollectionName \in boots[b].listed
        /\ boots[b].before[2] > 0

\* the chunks that hold a piece of block i
ChunksOf(i) == {k \in 1 .. Len(chunks) : \E pc \in chunks[k].pieces : pc[1] = i}

\* C22: tables are never split.  On a PDF page, and on a slide too long to
\* be one slide chunk, every table block is in exactly one chunk, that chunk
\* is of type table and holds the block whole.
C22_TablesWhole ==
    (/\ chunks # <<>>
     /\ \/ page.extraction_method = "pdfplumber"
        \/ 2 * WordsOf(page.blocks, 1, Len(page.blocks)) > 3 * ChunkSize)
    => \A i \in 1 .. Len(page.blocks) :
          page.blocks[i].kind = "table"
          => /\ Cardinality(ChunksOf(i)) = 1
             /\ \A k \in ChunksOf(i) :
                   /\ chunks[k].chunk_type = "table"
                   /\ <<i, 1, page.blocks[i].words>> \in chunks[k].pieces

\* the jobs of document d that are queued, running or waiting for their retry
Outstanding(d) ==
    {j \in JobIds : jobs[j].doc = d /\ jobs[j].pc \in {"queued", "started", "fetched", "failing"}}

\* C23: one job per document.  At any time at most one ingestion job
\* (queued, running or waiting for its automatic retry) exists for a document.
C23_OneJobPerDocument ==
    \A d \in DocIds : Cardinality(Outstanding(d)) <= 1

\* a handler is between its pending commit for document d and its dispatch
Dispatching(d) ==
    \/ d \in retrying
    \/ \E r \in UploadIds : uploads[r].pc = "created" /\ uploads[r].doc = d

\* C24: a pending document has a job.  Once the handler that made a document
\* pending has finished its dispatch, the document is pending only while a
\* job for it is outstanding.
C24_PendingHasJob ==
    \A d \in DocIds :
        (/\ docs[d].exists
         /\ docs[d].processing_status = "pending"
         /\ ~Dispatching(d))
        => Outstanding(d) # {}

RECURSIVE SumChunks(_)
\* the number of points the runs in S have put into the index
SumChunks(S) ==
    IF S = {} THEN 0
    ELSE LET p == CHOOSE x \in S : TRUE IN p.chunks + SumChunks(S \ {p})

\* the number of index points that originate from document d
PointsOf(d) == SumChunks({p \in points : p.doc = d})

\* C25: index consistency.  For every document whose status is done, the
\* number of index points that originate from it equals its chunk_count.
C25_IndexConsistent ==
    \A d \in DocIds :
        (docs[d].exists /\ docs[d].processing_status = "done")
        => PointsOf(d) = docs[d].chunk_count

\* C26: session isolation.  A chat request by user u appends to the short-term
\* cache only under a session key derived from u's own user id: supplying a
\* session key that belongs to another user never appends messages to that
\* user's list, so every message under a key that was made up for a user was
\* appended by that user.
C26_SessionIsolation ==
    \A k \in issued :
        \A i \in 1 .. Len(redis[k]) : redis[k][i].by = KeyUser(k)

\* C27: the subscriber set is never modified while a broadcast iterates over
\* it.  A subscriber connecting or disconnecting while a broadcast is
\* suspended in a send does not make the broadcast abort: no broadcast task
\* ends in the RuntimeError of the set iterator.
C27_BroadcastNotAborted == \A e \in EventIds : tasks[e].pc # "crashed"

\* C28: every emit call made in the request-serving process, on the event
\* loop's thread or on a worker-pool thread, persists the event when the event
\* store takes it and schedules a broadcast of it to the subscribers connected
\* at that moment; a failure of the event store neither prevents the broadcast
\* nor raises to the caller.
C28_EmitPersistsAndBroadcasts ==
    \A i \in 1 .. Len(emits) :
        /\ ~emits[i].raised
        /\ emits[i].store_ok => \E k \in 1 .. Len(store) : store[k] = i
        /\ emits[i].subscribers # {} => emits[i].broadcast = "scheduled"

\* C29: satisfiable test-type filter.  Every test_type value that
\* extract_filters_from_query produces equals some test_type value that
\* extract_metadata can store in a chunk payload, and a search carrying the
\* filter returns the chunk of a document that mentions the test in the words
\* of the query.
C29_FilterSatisfiable ==
    /\ (filters.set /\ filters.test_type # NoValue)
       => \E text \in Texts : StoredTestType(text) = filters.test_type
    /\ (matched # "unset" /\ filters.test_type # NoValue /\ chunkText = mention)
       => matched = "hit"

\* C30: classify_intent never raises and returns an intent.  The LLM is asked
\* exactly when the confidence of the rules is below 0.75 or the caller sets
\* use_llm; if the LLM call fails the result is that of the rules; if the
\* reply names no category the result is document_query; and the rules return
\* follow_up only when the history is non-empty.
C30_ClassifyIntent ==
    cls.pc = "returned"
    => /\ cls.result[1] \in Intents
       /\ cls.llm_calls = 1 <=> (cls.use_llm \/ cls.rules[2] < 75)
       /\ (cls.llm_calls = 1 /\ cls.answer = "raises") => cls.result = cls.rules
       /\ (cls.llm_calls = 1 /\ cls.answer = "other") => cls.result[1] = "document_query"
       /\ cls.rules[1] = "follow_up" => cls.history # <<>>

\* the caller set use_llm, the rules were sure, the LLM call failed and the
\* follow-up found by the rules was returned
C30_Witness ==
    /\ cls.pc = "returned" /\ cls.use_llm /\ cls.rules = <<"follow_up", 85>>
    /\ cls.llm_calls = 1 /\ cls.answer = "raises" /\ cls.result = cls.rules

====
